---- MODULE Spec2Model ----
(***************************************************************************)
(* The agent engine of the multi-agent TDD system (src/src/agent_engine.py) *)
(* as a state machine: main() constructs an AgentEngine and runs            *)
(* execute_workflow, which checks out the feature branch, gathers context,  *)
(* asks for generated code, extracts and writes the file blocks, runs the   *)
(* tests, commits, pushes and posts one comment on the issue.               *)
(*                                                                         *)
(* Names with several path segments (branches, refs) are sequences of       *)
(* segments, so that "feature/I1" is <<"feature", "I1">> and                *)
(* name.split('/')[-1] is the one-segment name <<"I1">>.  A text is a       *)
(* sequence of lines.                                                       *)
(*                                                                         *)
(* Three specifications share the module: Spec is one run of the engine,    *)
(* ContextSpec is AgentEngine._gather_context walking a project directory,  *)
(* and WebhookSpec is the webhook server (src/src/webhook_server.py)        *)
(* handling one request.  Each leaves the variables of the others idle.     *)
(***************************************************************************)
EXTENDS Integers, Sequences, FiniteSets, TLC

\* ------------------------------------------------------------------ bounds
\* The generated response is a concatenation of at most MaxSegs segments.
MaxSegs == 2
\* One glob pattern matches no, one or MaxMatch paths of a kind.
MaxMatch == 21
\* A comment body has at most MaxText characters.
MaxText == 4
\* the longest path put between a host and an identifier
MaxPad == 100
\* One issue is triggered at most MaxRuns times, one run after the other.
MaxRuns == 2
\* What the pipe of a task's standard error holds, in units of output, the
\* most one log record takes, and the log records of a run before its report.
PipeCapacity == 2
MaxWrite == 2
LogPoints == 3
\* A path handed to write_file_content has at most MaxDepth segments.
MaxDepth == 3

\* ------------------------------------------------------- program constants
SuccessTruncate == 1000
FailureTruncate == 2000
\* len("STDOUT:\n" + "\n\nSTDERR:\n")
CombinedOverhead == 18
\* len("Test execution timed out after 5 minutes")
TimeoutMsgLen == 40
\* len("Failed to run tests: ")
StartFailedPrefixLen == 21
\* len("No tests specified")
NoTestsMsgLen == 18
\* _gather_context: if len(context_files) > 20
ContextCap == 20
\* _gather_context: len(content) < 10000
SizeCap == 10000

VARIABLES
    pc,               \* where main()/execute_workflow stands
    env_ok,           \* ANTHROPIC_API_KEY and LINEAR_API_KEY are set
    repo_valid,       \* args.project_path holds a git repository
    test_command,     \* args.test_command: "" (none) or a command
    heads,            \* repo.heads: the local branches
    origin_refs,      \* repo.remotes.origin.refs: the remote-tracking refs
    active_branch,    \* the branch checked out in the working tree
    head_tree,        \* path -> content of the checked-out commit
    index,            \* path -> staged content
    worktree,         \* path -> content on disk
    claude_response,  \* what generate_code returned
    code_blocks,      \* the ordered mapping extract_code_blocks returned
    written_files,    \* the paths whose write succeeded, in order
    test_run,         \* what the test subprocess did
    test_success,     \* run_tests' first result
    test_output,      \* run_tests' second result (kind and length of the text)
    exc,              \* the exception being handled by execute_workflow
    reports,          \* every LinearAPIClient.add_comment call, in order
    calls,            \* every pipeline step execute_workflow invoked, in order
    gitops,           \* every git command run, in order
    commits,          \* commits created by this run
    pushed            \* branches pushed by this run

\* AgentEngine._gather_context, run on its own
VARIABLES
    ctx_pc,           \* where _gather_context stands
    ctx_repo,         \* how many files of each kind the project holds
    ctx_pattern,      \* index of the pattern being globbed
    ctx_k,            \* index of the next match of that pattern
    context_files     \* the mapping being built: {[path, len]}

\* webhook_server.py: the server and the request being handled
VARIABLES
    wh_pc,            \* where process_linear_webhook stands
    webhook_secret,   \* WebhookValidator.webhook_secret, "" when not set
    config_file,      \* config.json on disk: missing, malformed or ok
    config_cache,     \* ConfigManager._config_cache
    request,          \* the request: its body and its Linear-Signature
    comment_data,     \* what extract_comment_data returned
    project,          \* what find_project_by_id returned
    mentions,         \* what find_agent_mentions returned
    wh_i,             \* index of the mention the loop stands at
    dispatched_count, \* dispatch_agent_task calls that returned True
    spawned,          \* the processes Popen started for this request
    task_state,       \* where each of those processes stands, by position
    wh_steps,         \* what the handler called for this request, in order
    http_response     \* the HTTP response to this request

\* two agent_engine.py processes at work in one repository
VARIABLES
    race_pc,          \* where each of the two runs of execute_workflow stands
    race_log          \* the write, test and commit steps taken, with the
                      \* branch that was checked out when each was taken

\* shared/utils/issue_parser.py: one call of extract_linear_issue
VARIABLES
    ip_parts,         \* what the text is made of
    ip_text,          \* the text, a sequence of characters
    ip_result         \* the pair extract_linear_issue returned

\* ClaudeAIClient.extract_code_blocks, called on its own
VARIABLES
    xb_segs,          \* what the response is made of
    xb_blocks         \* the mapping extract_code_blocks returned

\* webhook_server.py and agent_engine.py: the task processes of one
\* dispatcher and the pipes subprocess.Popen gave them
VARIABLES
    tk_pc,            \* each task: not spawned, logging, writing, reporting, done
    tk_point,         \* each task: the log records it has written
    tk_pending,       \* each task: the size of the record it is writing
    pipe              \* each task: what its standard error pipe holds unread

\* Runs of agent_engine.py for one issue, one after the other has ended
VARIABLES
    rerun             \* the number of the run, and where it began

\* presentation/api/slack_bot.py: one call of one of its helpers, and one
\* app_mention event handled by handle_mention
VARIABLES
    fn_call,          \* one call of a function: its arguments and its result
    sb_pc,            \* where handle_mention stands
    sb_text,          \* event['text'], a sequence of characters
    sb_event,         \* the event's ts and thread_ts
    sb_config,        \* config.json as _get_project_from_issue finds it
    sb_found,         \* the locals issue_id, agent_type, project and agent
    sb_log            \* ack(), say(...) and dispatch calls, in order

wf_vars == <<pc, env_ok, repo_valid, test_command, heads, origin_refs,
          active_branch, head_tree, index, worktree, claude_response,
          code_blocks, written_files, test_run, test_success, test_output,
          exc, reports, calls, gitops, commits, pushed, rerun>>
ctx_vars == <<ctx_pc, ctx_repo, ctx_pattern, ctx_k, context_files>>
\* what the workflow's steps leave alone
wh_vars == <<wh_pc, webhook_secret, config_file, config_cache, request,
             comment_data, project, mentions, wh_i, dispatched_count, spawned,
             task_state, wh_steps, http_response>>
\* the locals of one call of process_linear_webhook
wh_locals == <<comment_data, project, mentions, wh_i, dispatched_count,
               spawned, task_state>>
race_vars == <<race_pc, race_log>>
\* the variables of the parts modelled further down
ip_vars == <<ip_parts, ip_text, ip_result>>
xb_vars == <<xb_segs, xb_blocks>>
sb_vars == <<fn_call, sb_pc, sb_text, sb_event, sb_config, sb_found, sb_log>>
pipe_vars == <<tk_pc, tk_point, tk_pending, pipe>>
ext_vars == <<race_vars, ip_vars, xb_vars, sb_vars, pipe_vars>>
other_vars == <<ctx_vars, wh_vars, ext_vars>>
vars == <<wf_vars, other_vars>>

repo_vars == <<heads, origin_refs, active_branch>>
tree_vars == <<head_tree, index, worktree>>
arg_vars == <<env_ok, repo_valid, test_command>>
gen_vars == <<claude_response, code_blocks, written_files>>
test_vars == <<test_run, test_success, test_output>>

\* ------------------------------------------------------------------ helpers
Min(a, b) == IF a < b THEN a ELSE b

Range(s) == {s[i] : i \in 1..Len(s)}

\* The elements of s that satisfy Keep, in order.
RECURSIVE SelectIn(_, _)
SelectIn(s, keep) ==
    IF s = <<>> THEN <<>>
    ELSE IF Head(s) \in keep THEN <<Head(s)>> \o SelectIn(Tail(s), keep)
    ELSE SelectIn(Tail(s), keep)

\* ------------------------------------------------------------- names, paths
issue_id == "I1"

\* AgentEngine.__init__: self.branch_name = f"feature/{args.issue_id}"
branch_name == <<"feature", issue_id>>

\* ref.name.split('/')[-1]
LastSegment(name) == <<name[Len(name)]>>

OriginRef(name) == <<"origin">> \o name

BranchNames == {<<"main">>, <<"master">>, branch_name}

\* Paths of the working tree: two that a response may name and one it never does.
GenPaths == {"a.py", "b.py"}
TreePaths == GenPaths \cup {"notes.txt"}

NoFile == <<"<no such file>">>
GenContent == <<"code">>
OldContent == <<"old">>

\* ------------------------------------------------- the generated response
\* A line of the response: a "### File: <path>" heading, a fence line
\* ("```" alone or with a language tag) or any other line.
HeadLine(p) == [k |-> "head", v |-> p]
FenceLine == [k |-> "fence", v |-> ""]
TextLine(t) == [k |-> "text", v |-> t]
\* The same heading and fence lines with spaces in front of them.
IndentedHead(p) == [k |-> "indented_head", v |-> p]
IndentedFence == [k |-> "indented_fence", v |-> ""]

\* "### File: " is looked for anywhere in a line, the fences only at the
\* start of one (the pattern has "\n" right before each).
HasHeading(l) == l.k \in {"head", "indented_head"}

\* The segments responses are built from: a well-formed file block, prose,
\* and a heading that no fence follows.
FileBlock(p) == <<HeadLine(p), FenceLine, TextLine("code"), FenceLine>>
Prose == <<TextLine("prose")>>
HeadingOnly(p) == <<HeadLine(p), TextLine("prose")>>

Segments == {FileBlock(p) : p \in GenPaths} \cup {Prose, HeadingOnly("a.py")}

RECURSIVE SegConcat(_)
SegConcat(n) ==
    IF n = 0 THEN {<<>>}
    ELSE LET shorter == SegConcat(n - 1)
         IN shorter \cup {s \o g : s \in shorter, g \in Segments}

Responses == SegConcat(MaxSegs)

\* generate_code returns None (an API error, an empty content list) or text.
NoResponse == [is_none |-> TRUE, lines |-> <<>>]
TextResponse(lines) == [is_none |-> FALSE, lines |-> lines]

\* `not claude_response`: None and the empty string are falsy.
ResponseFalsy(r) == r.is_none \/ r.lines = <<>>

\* str.strip() of a fenced body: blank lines at both ends go.
RECURSIVE StripLeft(_)
StripLeft(ls) ==
    IF ls # <<>> /\ Head(ls) = "" THEN StripLeft(Tail(ls)) ELSE ls

RECURSIVE StripRight(_)
StripRight(ls) ==
    IF ls # <<>> /\ ls[Len(ls)] = ""
    THEN StripRight(SubSeq(ls, 1, Len(ls) - 1)) ELSE ls

StripContent(ls) == StripRight(StripLeft(ls))

\* code_blocks[file_path] = code_content on an insertion-ordered mapping: a
\* new key goes last, a known key keeps its place and takes the new value.
DictSet(d, key, val) ==
    IF \E i \in 1..Len(d) : d[i].path = key
    THEN [i \in 1..Len(d) |->
             IF d[i].path = key THEN [path |-> key, content |-> val] ELSE d[i]]
    ELSE Append(d, [path |-> key, content |-> val])

DictKeys(d) == [i \in 1..Len(d) |-> d[i].path]

\* A line as the text it is (a fence line, whatever its tag, as "<fence>").
LineText(l) ==
    CASE l.k = "head" -> "### File: " \o l.v
      [] l.k = "fence" -> "<fence>"
      [] l.k = "indented_head" -> "  ### File: " \o l.v
      [] l.k = "indented_fence" -> "  <fence>"
      [] OTHER -> l.v

\* The first line at or after `from` that starts with a fence, 0 if none.
ClosingFence(ls, from) ==
    LET js == {j \in from..Len(ls) : ls[j].k = "fence"}
    IN IF js = {} THEN 0 ELSE CHOOSE j \in js : \A j2 \in js : j <= j2

\* re.findall(r'### File: ([^\n]+)\n```(?:python|\w+)?\n(.*?)\n```', DOTALL):
\* a heading at line i, a fence at line i+1, then the shortest body that a
\* line starting with a fence ends; that line is at i+3 or later, because the
\* pattern asks for a newline between the opening fence's and the closing one.
\* The scan goes on after the closing fence.
RECURSIVE FindBlocks(_, _)
FindBlocks(ls, i) ==
    IF i > Len(ls) THEN <<>>
    ELSE LET j == IF HasHeading(ls[i]) /\ i + 1 <= Len(ls) /\ ls[i + 1].k = "fence"
                  THEN ClosingFence(ls, i + 3) ELSE 0
         IN IF j = 0 THEN FindBlocks(ls, i + 1)
            ELSE <<[path |-> ls[i].v,
                    body |-> [n \in 1..(j - i - 2) |-> LineText(ls[i + 1 + n])]]>>
                 \o FindBlocks(ls, j + 1)

RECURSIVE FillBlocks(_, _)
FillBlocks(matches, d) ==
    IF matches = <<>> THEN d
    ELSE FillBlocks(Tail(matches),
                    DictSet(d, Head(matches).path, StripContent(Head(matches).body)))

\* ClaudeAIClient.extract_code_blocks
ExtractCodeBlocks(response) == FillBlocks(FindBlocks(response, 1), <<>>)

\* ---------------------------------------------------------------------- git
\* A git command: what is run, on what (a branch name or a path), and
\* whether it returned or raised GitCommandError.
Git(op, arg) == [op |-> op, arg |-> arg, ok |-> TRUE]

\* The repository as the git commands see and change it.
GitState(hs, active, ht, ix, cs, ps) ==
    [ok |-> TRUE, ops |-> <<>>, heads |-> hs, active |-> active,
     head_tree |-> ht, index |-> ix, commits |-> cs, pushed |-> ps]

\* Commands git itself refuses in the given state, whatever else happens.
GitRefuses(c, st, refs, wt) ==
    CASE c.op = "checkout" -> c.arg \notin st.heads /\ OriginRef(c.arg) \notin refs
      [] c.op = "checkout_new" -> c.arg \in st.heads
      [] c.op = "checkout_track" -> c.arg \in st.heads \/ OriginRef(c.arg) \notin refs
      [] c.op = "pull" -> OriginRef(c.arg) \notin refs
      [] c.op = "add" -> wt[c.arg[1]] = NoFile /\ st.index[c.arg[1]] = NoFile
      [] c.op = "commit" -> st.index = st.head_tree
      [] c.op = "push" -> c.arg \notin st.heads
      [] OTHER -> FALSE

GitApply(c, st, wt) ==
    LET done == [st EXCEPT !.ops = Append(@, c)]
    IN CASE c.op \in {"checkout", "checkout_new", "checkout_track"} ->
               [done EXCEPT !.heads = @ \cup {c.arg}, !.active = c.arg]
         [] c.op = "add" -> [done EXCEPT !.index[c.arg[1]] = wt[c.arg[1]]]
         [] c.op = "add_all" -> [done EXCEPT !.index = wt]
         [] c.op = "commit" ->
               [done EXCEPT !.head_tree = st.index,
                            !.commits = Append(@, [branch |-> st.active,
                                                   tree |-> st.index])]
         [] c.op = "push" -> [done EXCEPT !.pushed = @ \cup {c.arg}]
         [] OTHER -> done

\* The commands of plan from the i-th on, run in order until one raises:
\* the fail_at-th raises for a reason outside the model (network, lock,
\* hook, conflict), and so does a command git refuses.
RECURSIVE RunGit(_, _, _, _, _, _)
RunGit(plan, i, fail_at, st, refs, wt) ==
    IF i > Len(plan) THEN st
    ELSE IF i = fail_at \/ GitRefuses(plan[i], st, refs, wt)
    THEN [st EXCEPT !.ok = FALSE, !.ops = Append(@, [plan[i] EXCEPT !.ok = FALSE])]
    ELSE RunGit(plan, i + 1, fail_at, GitApply(plan[i], st, wt), refs, wt)

\* GitManager._get_main_branch
GetMainBranch(refs) ==
    IF <<"main">> \in {LastSegment(r) : r \in refs} THEN <<"main">> ELSE <<"master">>

\* A checkout_branch that updates the main branch and stays on it.
CheckoutPlan_StayOnMain(name, create_if_not_exists, hs, refs) ==
    <<Git("checkout", GetMainBranch(refs)), Git("pull", GetMainBranch(refs))>>

\* GitManager.checkout_branch, after the fetch: the commands of the branch
\* of the if/elif chain that is taken.
CheckoutPlan(name, create_if_not_exists, hs, refs) ==
    LET local_branches == {LastSegment(r) : r \in hs}
        remote_branches == {LastSegment(r) : r \in refs}
    IN IF name \in local_branches
       THEN <<Git("checkout", name), Git("pull", name)>>
       ELSE IF name \in remote_branches
       THEN <<Git("checkout_track", name)>>
       ELSE IF create_if_not_exists
       THEN LET main_branch == GetMainBranch(refs)
            IN <<Git("checkout", main_branch), Git("pull", main_branch),
                 Git("checkout_new", name)>>
       ELSE <<>>

\* Whether checkout_branch reaches `return True` when no command raises.
CheckoutFound(name, create_if_not_exists, hs, refs) ==
    \/ name \in {LastSegment(r) : r \in hs}
    \/ name \in {LastSegment(r) : r \in refs}
    \/ create_if_not_exists

\* GitManager.checkout_branch: any exception makes it return False.
CheckoutBranch(name, create_if_not_exists, fail_at, st, refs, wt) ==
    LET plan == <<Git("fetch", <<"origin">>)>>
                \o CheckoutPlan(name, create_if_not_exists, st.heads, refs)
        r == RunGit(plan, 1, fail_at, st, refs, wt)
    IN [r EXCEPT !.ok = @ /\ CheckoutFound(name, create_if_not_exists, st.heads, refs)]

\* repo.is_dirty(untracked_files=True): staged changes, unstaged changes of
\* tracked files, or untracked files.
IsDirty(st, wt) == st.index # st.head_tree \/ wt # st.index

\* stage_and_commit staging everything whatever it is given.
StagePlan_All(files) == <<Git("add_all", <<".">>)>>

\* GitManager.stage_and_commit: `if files:` stages each file, else everything.
StagePlan(files) ==
    IF files # <<>>
    THEN [i \in 1..Len(files) |-> Git("add", <<files[i]>>)]
    ELSE <<Git("add_all", <<".">>)>>

\* GitManager.stage_and_commit: any exception makes it return False.
StageAndCommit(files, fail_at, st, refs, wt) ==
    LET plan == StagePlan(files)
        staged == RunGit(plan, 1, fail_at, st, refs, wt)
    IN IF ~staged.ok THEN staged
       ELSE IF ~IsDirty(staged, wt) THEN staged
       ELSE RunGit(<<Git("commit", <<"-m">>)>>, 1,
                   IF fail_at = Len(plan) + 1 THEN 1 ELSE 0, staged, refs, wt)

\* A push_to_remote that goes back to the main branch when the push fails.
PushToRemote_Restore(name, fail_at, st, refs, wt) ==
    LET r == RunGit(<<Git("push", name)>>, 1, fail_at, st, refs, wt)
    IN [r EXCEPT !.active = IF r.ok THEN @ ELSE GetMainBranch(refs)]

\* push_to_remote returning True from its except clause too.
PushToRemote_Swallow(name, fail_at, st, refs, wt) ==
    [RunGit(<<Git("push", name)>>, 1, fail_at, st, refs, wt) EXCEPT !.ok = TRUE]

\* GitManager.push_to_remote
PushToRemote(name, fail_at, st, refs, wt) ==
    RunGit(<<Git("push", name)>>, 1, fail_at, st, refs, wt)

\* -------------------------------------------------------------------- tests
\* What the test subprocess can do: exit with a code after printing n
\* characters, run into the timeout, or fail to start (n characters of error).
StreamLens == {0, SuccessTruncate - CombinedOverhead + 1,
               FailureTruncate - CombinedOverhead, FailureTruncate - CombinedOverhead + 1}

TestRuns ==
    {[how |-> "exit", rc |-> rc, n |-> n] : rc \in {0, 1}, n \in StreamLens}
    \cup {[how |-> "timeout", rc |-> 0, n |-> 0], [how |-> "oserror", rc |-> 0, n |-> 12]}

NotRun == [how |-> "none", rc |-> 0, n |-> 0]

Output(kind, len) == [kind |-> kind, len |-> len]

NoOutput == Output("none", 0)

\* run_tests taking exit code 1 for a pass as well.
TestPassed_Loose(returncode) == returncode <= 1

\* success = result.returncode == 0
TestPassed(returncode) == returncode = 0

\* run_tests without its `except subprocess.TimeoutExpired` clause: the
\* timeout reaches `except Exception` like any failure to start.
RunTests_NoTimeoutClause(run) ==
    IF run.how = "exit"
    THEN [success |-> TestPassed(run.rc),
          output |-> Output("combined", CombinedOverhead + run.n)]
    ELSE [success |-> FALSE,
          output |-> Output("start_failed", StartFailedPrefixLen + run.n)]

\* TestExecutor.run_tests
RunTests(run) ==
    CASE run.how = "exit" ->
             [success |-> TestPassed(run.rc),
              output |-> Output("combined", CombinedOverhead + run.n)]
      [] run.how = "timeout" ->
             [success |-> FALSE, output |-> Output("timed_out", TimeoutMsgLen)]
      [] OTHER ->
             [success |-> FALSE,
              output |-> Output("start_failed", StartFailedPrefixLen + run.n)]

\* ------------------------------------------------------------------ reports
\* text[:limit] followed by '...' when the text is longer than limit.
Truncated(out, limit) ==
    [kind |-> out.kind, shown |-> Min(out.len, limit), ellipsis |-> out.len > limit]

\* AgentEngine._report_success: the comment it builds (claude_response is
\* taken and not used).
ReportSuccess(response, modified_files, out) ==
    [kind |-> "success", error |-> <<>>, files |-> modified_files,
     out |-> Truncated(out, SuccessTruncate), branch |-> branch_name,
     posted |-> FALSE]

\* AgentEngine._report_test_failure
ReportTestFailure(out) ==
    [kind |-> "tests_failed", error |-> <<>>, files |-> <<>>,
     out |-> Truncated(out, FailureTruncate), branch |-> branch_name,
     posted |-> FALSE]

\* A _report_failure that posts one text whatever the error is.
ReportFailure_Generic(error_message) ==
    [kind |-> "workflow_failed", error |-> <<"Agent workflow failed">>,
     files |-> <<>>, out |-> Truncated(NoOutput, 0), branch |-> branch_name,
     posted |-> FALSE]

\* AgentEngine._report_failure
ReportFailure(error_message) ==
    [kind |-> "workflow_failed", error |-> error_message, files |-> <<>>,
     out |-> Truncated(NoOutput, 0), branch |-> branch_name, posted |-> FALSE]

\* An add_comment that lets the failure of its post out as an exception.
AddComment_Escalates(comment) ==
    \E posted \in BOOLEAN :
        /\ reports' = Append(reports, [comment EXCEPT !.posted = posted])
        /\ pc' = IF posted THEN "done" ELSE "except"

\* A report function that builds its comment and never posts it.
AddComment_Dropped(comment) == pc' = "done" /\ reports' = reports

\* LinearAPIClient.add_comment: one post, which the tracker takes or not; no
\* exception leaves it.  The report functions end with it, and every branch
\* of execute_workflow that reports is at its end.
AddComment(comment) ==
    /\ \E posted \in BOOLEAN :
           reports' = Append(reports, [comment EXCEPT !.posted = posted])
    /\ pc' = "done"

\* ------------------------------------------------------- _gather_context
\* for pattern in patterns: for file_path in repo_path.rglob(pattern)
Patterns == <<"*.py", "requirements*.txt", "pyproject.toml", "README.md",
              "tests/*.py">>

\* The kinds of path a project holds: a .py file outside a tests directory,
\* a .py file directly inside one, and one kind per other pattern.
FileKinds == {"py", "tests_py", "req", "pyproject", "readme"}

\* rglob("*.py") also yields the files rglob("tests/*.py") yields.
MatchKinds(pattern) ==
    CASE pattern = "*.py" -> <<"py", "tests_py">>
      [] pattern = "requirements*.txt" -> <<"req">>
      [] pattern = "pyproject.toml" -> <<"pyproject">>
      [] pattern = "README.md" -> <<"readme">>
      [] pattern = "tests/*.py" -> <<"tests_py">>

File(kind, k) == [kind |-> kind, k |-> k]

\* The paths one rglob yields, in its order.
KindFiles(repo, kind) == [k \in 1..repo.count[kind] |-> File(kind, k)]
Matches(repo, pattern) ==
    LET kinds == MatchKinds(pattern)
    IN  IF Len(kinds) = 2
        THEN KindFiles(repo, kinds[1]) \o KindFiles(repo, kinds[2])
        ELSE KindFiles(repo, kinds[1])

\* What the first path of each kind is: a file under the size cap like the
\* others, a file of exactly the cap, an empty file, a directory, or a
\* file read_file_content cannot read (it returns None).
OddKinds == {"none", "big", "empty", "dir", "unreadable"}
PathIs(repo, f) == IF f.k = 1 THEN repo.odd ELSE "none"
IsFile(repo, f) == PathIs(repo, f) # "dir"
\* len(content), or -1 for None
ContentLen(repo, f) ==
    CASE PathIs(repo, f) = "big" -> SizeCap
      [] PathIs(repo, f) = "empty" -> 0
      [] PathIs(repo, f) = "unreadable" -> -1
      [] OTHER -> SizeCap - 1

\* if content and len(content) < 10000
Admitted(len) == len > 0 /\ len < SizeCap

\* context_files[str(relative_path)] = content
ContextSet(ctx, f, len) ==
    {e \in ctx : e.path # f} \cup {[path |-> f, len |-> len]}

\* if len(context_files) > 20: break
OverCap(ctx) == Cardinality(ctx) > ContextCap

CtxRepos ==
    {[count |-> c, odd |-> o] :
        c \in {c \in [FileKinds -> {0, 1, MaxMatch}] :
                  \A kind \in {"req", "pyproject", "readme"} : c[kind] <= 1},
        o \in OddKinds}

CtxIdle ==
    /\ ctx_pc = "idle"
    /\ ctx_repo = [count |-> [kind \in FileKinds |-> 0], odd |-> "none"]
    /\ ctx_pattern = 1
    /\ ctx_k = 1
    /\ context_files = {}

\* ------------------------------------------------------ the webhook server
\* JSON values as the handler meets them: a key that is absent, a key whose
\* value is null, a string, a text (a sequence of characters), an object.
Absent == [t |-> "absent"]
Null == [t |-> "null"]
Str(v) == [t |-> "str", v |-> v]
Text(chars) == [t |-> "text", v |-> chars]

\* dict.get(key, default) of a key holding `value`: the default stands in
\* for an absent key only, a null value is returned as None.
PyGet(value, default) == IF value = Absent THEN default ELSE value

\* Python truth of what .get returned: None and the empty string are false.
Truthy(value) ==
    CASE value \in {Absent, Null} -> FALSE
      [] value.t = "str" -> value.v # ""
      [] value.t = "text" -> value.v # <<>>
      [] OTHER -> TRUE

\* The characters of a comment body: the at sign, two word characters and
\* a space.
Chars == {"@", "d", "t", " "}
WordChars == {"d", "t"}

RECURSIVE TextsOfLen(_)
TextsOfLen(n) ==
    IF n = 0 THEN {<<>>}
    ELSE {Append(tx, c) : tx \in TextsOfLen(n - 1), c \in Chars}
TextsUpTo(n) == UNION {TextsOfLen(k) : k \in 0..n}

\* The end of the run of word characters that starts at position i.
RECURSIVE WordEnd(_, _)
WordEnd(tx, i) ==
    IF i <= Len(tx) /\ tx[i] \in WordChars THEN WordEnd(tx, i + 1) ELSE i

\* re.findall(r'@(\w+)', comment_body) from position i on, each match with
\* its "@" put back: PayloadParser.find_agent_mentions.
RECURSIVE FindMentionsFrom(_, _)
FindMentionsFrom(tx, i) ==
    IF i > Len(tx) THEN <<>>
    ELSE IF tx[i] = "@" /\ WordEnd(tx, i + 1) > i + 1
         THEN <<SubSeq(tx, i, WordEnd(tx, i + 1) - 1)>>
                  \o FindMentionsFrom(tx, WordEnd(tx, i + 1))
         ELSE FindMentionsFrom(tx, i + 1)

\* find_agent_mentions keeping the distinct handles only.
FindAgentMentions_Distinct(comment_body) ==
    LET all == FindMentionsFrom(comment_body, 1)
    IN  SelectSeq([i \in 1..Len(all) |->
                      IF \E j \in 1..(i - 1) : all[j] = all[i] THEN <<>> ELSE all[i]],
                  LAMBDA m : m # <<>>)

FindAgentMentions(comment_body) == FindMentionsFrom(comment_body, 1)

\* ---- the configuration file
Agent(mention, role) == [mention |-> mention, role |-> role]
ProjectConfig(id, agents) == [linearProjectId |-> id, agents |-> agents]

\* config.json: project P1 with a developer and a tester, project P2 with
\* a developer only.
ConfigContent ==
    <<ProjectConfig("P1", <<Agent(<<"@", "d">>, "developer"),
                            Agent(<<"@", "t">>, "tester")>>),
      ProjectConfig("P2", <<Agent(<<"@", "d">>, "developer")>>)>>

\* _config_cache: None, or the parsed file
NoConfig == [loaded |-> FALSE, projects |-> <<>>]
Loaded(projects) == [loaded |-> TRUE, projects |-> projects]
NoProject == ProjectConfig("<none>", <<>>)
NoAgent == Agent(<<>>, "<none>")

\* ConfigManager.find_project_by_id: the first project with that id
FindProjectById(config, id) ==
    LET hits == {i \in 1..Len(config) : config[i].linearProjectId = id}
    IN  IF hits = {} THEN NoProject
        ELSE config[CHOOSE i \in hits : \A j \in hits : i <= j]

\* ConfigManager.find_agent_by_mention: the first agent with that mention
FindAgentByMention(proj, mention) ==
    LET hits == {i \in 1..Len(proj.agents) :
                    proj.agents[i].mention = mention}
    IN  IF hits = {} THEN NoAgent
        ELSE proj.agents[CHOOSE i \in hits : \A j \in hits : i <= j]

\* ---- the request
\* A webhook payload, as far as the handler reads it.
Issue(id, proj) == [t |-> "dict", id |-> id, project |-> proj]
ProjectRef(id) == [t |-> "dict", id |-> id]
UserDict == [t |-> "dict"]
Payload(type, action, id, body, issue, user) ==
    [type |-> type, action |-> action,
     data |-> [id |-> id, body |-> body, issue |-> issue, user |-> user]]

\* The request body: bytes that are not UTF-8, text that is not JSON, JSON
\* that LinearWebhookPayload rejects, or a payload.
Body(kind, payload) == [kind |-> kind, payload |-> payload]
NominalPayload ==
    Payload("Comment", "create", Str("c1"), Text(<<"@", "d">>),
            Issue(Str("i1"), ProjectRef(Str("P1"))), UserDict)
OtherBody == Body("other", NominalPayload)

\* The Linear-Signature header: not sent, or a string made of the
\* "sha256=" prefix, hex digests, other ASCII text and non-ASCII text.
Prefix == [k |-> "sha256="]
Junk == [k |-> "junk"]
NonAscii == [k |-> "non_ascii"]
\* hmac.new(key, body, hashlib.sha256).hexdigest()
HexDigest(key, body) == [k |-> "hex", key |-> key, of |-> body]
NoSignature == [given |-> FALSE, s |-> <<>>]
Signature(s) == [given |-> TRUE, s |-> s]

Secrets == {"", "k1"}

SignedOrNot(body) ==
    {NoSignature, Signature(<<Prefix, HexDigest("k1", body)>>)}

SignaturesFor(body) ==
    {NoSignature, Signature(<<>>),
     Signature(<<HexDigest("k1", body)>>),
     Signature(<<Prefix, HexDigest("k1", body)>>),
     Signature(<<Prefix, Prefix, HexDigest("k1", body)>>),
     Signature(<<Junk>>),
     Signature(<<NonAscii>>),
     Signature(<<HexDigest("k1", OtherBody)>>)}

\* What a call does: it returns a value or raises.
Returns(value) == [raises |-> "", value |-> value]
Raises(exception) == [raises |-> exception, value |-> FALSE]

\* validate_signature without its `if not self.webhook_secret` bypass.
ValidateSignature_NoBypass(secret, body, signature) ==
    IF ~signature.given \/ signature.s = <<>> THEN Returns(FALSE)
    ELSE LET stripped == IF signature.s[1] = Prefix
                         THEN Tail(signature.s) ELSE signature.s
         IN  IF NonAscii \in Range(stripped)
             THEN Raises("TypeError")
             ELSE Returns(stripped = <<HexDigest(secret, body)>>)

\* WebhookValidator.validate_signature; compare_digest raises TypeError on
\* a str with non-ASCII characters.
ValidateSignature(secret, body, signature) ==
    IF secret = "" THEN Returns(TRUE)
    ELSE IF ~signature.given \/ signature.s = <<>> THEN Returns(FALSE)
    ELSE LET stripped == IF signature.s[1] = Prefix
                         THEN Tail(signature.s) ELSE signature.s
         IN  IF NonAscii \in Range(stripped)
             THEN Raises("TypeError")
             ELSE Returns(stripped = <<HexDigest(secret, body)>>)

\* ---- PayloadParser.extract_comment_data
NoCommentData ==
    [comment_id |-> Absent, comment_body |-> Absent, issue_id |-> Absent,
     project_id |-> Absent]

\* x.get(key) on what dict.get("...", {}) returned: None has no .get
GetRaises(value) == value = Null

\* The dict display is built key by key; data.get("issue", {}) is None when
\* the key holds null, and None.get raises AttributeError, which the
\* handler for (KeyError, TypeError) lets through.  author_id and
\* author_name are read (user is) and never used by the handler.
ExtractCommentData(payload) ==
    LET data == payload.data
        issue == PyGet(data.issue, Issue(Absent, Absent))
        proj == IF GetRaises(issue) THEN Null
                ELSE PyGet(issue.project, ProjectRef(Absent))
    IN  IF payload.type # "Comment" \/ payload.action # "create"
        THEN Returns(NoCommentData)
        ELSE IF GetRaises(issue) \/ GetRaises(proj) \/ GetRaises(data.user)
        THEN [raises |-> "AttributeError", value |-> NoCommentData]
        ELSE IF ~Truthy(data.id) \/ ~Truthy(issue.id)
        THEN Returns(NoCommentData)
        ELSE Returns([comment_id |-> data.id,
                      comment_body |-> PyGet(data.body, Text(<<>>)),
                      issue_id |-> issue.id,
                      project_id |-> proj.id])

\* ---- the requests a server is sent
ProjectRefs == {Absent, Null} \cup {ProjectRef(Str(id)) : id \in {"P1", "P2", "P9"}}
Issues == {Absent, Null}
              \cup {Issue(id, proj) : id \in {Absent, Str("i1")}, proj \in ProjectRefs}

\* Every shape of payload, with a body of one mention or none at all
ShapePayloads ==
    {Payload(ta[1], ta[2], id, body, issue, user) :
        ta \in {<<"Comment", "create">>, <<"Issue", "create">>,
                <<"Comment", "update">>},
        id \in {Absent, Str("c1")},
        body \in {Absent, Null, Text(<<" ">>), Text(<<"@", "d">>)},
        issue \in Issues,
        user \in {Null, UserDict}}

\* Every body text, in a comment-creation event on an issue of a
\* configured project
TextPayloads(n) ==
    {Payload("Comment", "create", Str("c1"), Text(tx),
             Issue(Str("i1"), ProjectRef(Str(id))), UserDict) :
        tx \in TextsUpTo(n), id \in {"P1", "P2"}}

ShapeBodies ==
    {Body("json", payload) : payload \in ShapePayloads}
        \cup {Body(kind, NominalPayload) :
                 kind \in {"not_utf8", "not_json", "bad_schema"}}
TextBodies(n) == {Body("json", payload) : payload \in TextPayloads(n)}

\* The requests: every shape of body under every signature, and every body
\* text unsigned and signed.
Request(body, signature) == [body |-> body, signature |-> signature]
Requests(n) ==
    UNION {{Request(body, sg) : sg \in SignaturesFor(body)} : body \in ShapeBodies}
    \cup UNION {{Request(body, sg) : sg \in SignedOrNot(body)} : body \in TextBodies(n)}
NoRequest == Request(OtherBody, NoSignature)

\* ---- process_linear_webhook
HttpResponse(code, message, dispatched, count) ==
    [status |-> code, message |-> message, dispatched |-> dispatched,
     count |-> count]
\* raise HTTPException(status_code=..., detail=...)
HttpError(code, detail) == HttpResponse(code, detail, FALSE, 0)
\* return WebhookResponse(message=..., dispatched=...): status "accepted",
\* sent with the route's default status code
WebhookResponse(message, dispatched, count) ==
    HttpResponse(200, message, dispatched, count)
NoHttpResponse == HttpResponse(0, "", FALSE, 0)
\* except Exception: raise HTTPException(500, ...)
InternalError == HttpError(500, "Internal server error processing webhook")

\* The locals of a handler that has not run yet.
LocalsFresh ==
    /\ comment_data = NoCommentData
    /\ project = NoProject
    /\ mentions = <<>>
    /\ wh_i = 1
    /\ dispatched_count = 0
    /\ spawned = <<>>
    /\ task_state = <<>>

WhIdle ==
    /\ wh_pc = "idle"
    /\ webhook_secret = ""
    /\ config_file = "ok"
    /\ config_cache = NoConfig
    /\ request = NoRequest
    /\ LocalsFresh
    /\ wh_steps = <<>>
    /\ http_response = NoHttpResponse

\* ---- two runs in one repository
\* The webhook handler starts one process per mention and more per comment:
\* two of them, for two issues, given the same --project-path.
Tasks == {1, 2}
TaskIssue(t) == IF t = 1 THEN "I1" ELSE "I2"
\* AgentEngine.__init__: self.branch_name = f"feature/{args.issue_id}"
TaskBranch(t) == <<"feature", TaskIssue(t)>>

RaceIdle ==
    /\ race_pc = [t \in Tasks |-> "idle"]
    /\ race_log = <<>>

PipeIdle ==
    /\ tk_pc = [t \in Tasks |-> "none"]
    /\ tk_point = [t \in Tasks |-> 0]
    /\ tk_pending = [t \in Tasks |-> 0]
    /\ pipe = [t \in Tasks |-> 0]

\* ---- responses given to extract_code_blocks alone
\* A part of a response: a file block with a one-line body, with a body that
\* has a blank line before and after its one line, or with no body at all
\* (an empty file), a file block whose lines all start with the same spaces,
\* or a line of prose.
Seg(kind, path) == [kind |-> kind, path |-> path]
FileSegKinds == {"block", "padded", "empty"}
Segs ==
    {Seg(k, p) : k \in FileSegKinds \cup {"indented"}, p \in GenPaths}
    \cup {Seg("prose", "")}

SegLines(seg) ==
    CASE seg.kind = "block" -> FileBlock(seg.path)
      [] seg.kind = "padded" ->
             <<HeadLine(seg.path), FenceLine, TextLine(""), TextLine("code"),
               TextLine(""), FenceLine>>
      [] seg.kind = "empty" -> <<HeadLine(seg.path), FenceLine, FenceLine>>
      [] seg.kind = "indented" ->
             <<IndentedHead(seg.path), IndentedFence, TextLine("  code"),
               IndentedFence>>
      [] OTHER -> Prose

RECURSIVE SegSeqs(_)
SegSeqs(n) ==
    IF n = 0 THEN {<<>>}
    ELSE LET shorter == SegSeqs(n - 1)
         IN shorter \cup {Append(q, g) : q \in shorter, g \in Segs}

RECURSIVE ResponseOf(_)
ResponseOf(segs) ==
    IF segs = <<>> THEN <<>> ELSE SegLines(Head(segs)) \o ResponseOf(Tail(segs))

NotExtracted == <<[path |-> "", content |-> <<>>]>>

ExtractIdle ==
    /\ xb_segs = <<>>
    /\ xb_blocks = NotExtracted

\* ---- shared/utils/issue_parser.py
\* Character classes of the patterns: [A-Za-z], \d, \w, [\w-] and [^\s],
\* over the characters the texts are written in.
Lowercase == <<"a", "b", "c", "d", "e", "f", "g", "h", "i", "j", "k", "l", "m",
              "n", "o", "p", "q", "r", "s", "t", "u", "v", "w", "x", "y", "z">>
Uppercase == <<"A", "B", "C", "D", "E", "F", "G", "H", "I", "J", "K", "L", "M",
              "N", "O", "P", "Q", "R", "S", "T", "U", "V", "W", "X", "Y", "Z">>
Letters == Range(Lowercase) \cup Range(Uppercase)
Digits == {"1", "2"}
WordCh == Letters \cup Digits \cup {"_"}
LinkCh == WordCh \cup {"-"}
NonSpace == LinkCh \cup {":", "/", ".", "<", ">", "@"}

\* The literal parts of LINEAR_URL_PATTERNS and of the URL test.
Https == <<"h", "t", "t", "p", "s", ":", "/", "/">>
Http == <<"h", "t", "t", "p", ":", "/", "/">>
LinearApp == <<"l", "i", "n", "e", "a", "r", ".", "a", "p", "p">>
IssueSeg == <<"/", "i", "s", "s", "u", "e", "/">>

\* None, and the pair returned when nothing is found.
None == <<"None">>
NotFound == [issue_id |-> None, url |-> None]

\* text[i:] starts with lit, all of it at or before position hi.
LitAt(text, i, lit, hi) ==
    /\ i >= 1
    /\ i + Len(lit) - 1 <= hi
    /\ \A k \in 1..Len(lit) : text[i + k - 1] = lit[k]

\* Where a greedy run of characters of a class that starts at i stops: the
\* first position at or after i that holds another character, or the end.
RECURSIVE RunEnd(_, _, _)
RunEnd(text, i, class) ==
    IF i > Len(text) \/ text[i] \notin class THEN i
    ELSE RunEnd(text, i + 1, class)

\* \b before a word character at i
BoundaryBefore(text, i) == i = 1 \/ text[i - 1] \notin WordCh
\* \b after a word character at i - 1
BoundaryAfter(text, i) == i > Len(text) \/ text[i] \notin WordCh

\* LINEAR_URL_PATTERNS[0] and [1] tried at position i: the literal head
\* (with \b before it for the second), [\w-]+, /issue/ and the group [\w-]+.
\* No shorter run can match, since "/" is in neither class.
LinkAt(text, i, k) ==
    LET head == IF k = 1 THEN Https \o LinearApp \o <<"/">>
                ELSE LinearApp \o <<"/">>
        a == i + Len(head)
        b == RunEnd(text, a, LinkCh)
        c == b + Len(IssueSeg)
        d == RunEnd(text, c, LinkCh)
    IN [found |-> /\ (k = 2 => BoundaryBefore(text, i))
                  /\ LitAt(text, i, head, Len(text))
                  /\ b > a
                  /\ LitAt(text, b, IssueSeg, Len(text))
                  /\ d > c,
        start |-> i, group |-> c, end |-> d]

\* re.search(pattern, text): the leftmost match, from position i on.
RECURSIVE SearchLink(_, _, _)
SearchLink(text, i, k) ==
    IF i > Len(text) THEN [found |-> FALSE, start |-> 0, group |-> 0, end |-> 0]
    ELSE IF LinkAt(text, i, k).found THEN LinkAt(text, i, k)
    ELSE SearchLink(text, i + 1, k)

\* LINEAR_URL_PATTERNS[2] tried at position i: \b, a letter, letters and
\* digits, a hyphen, digits, \b.
ShortAt(text, i) ==
    LET a == RunEnd(text, i + 1, Letters \cup Digits)
        b == RunEnd(text, a + 1, Digits)
    IN [found |-> /\ BoundaryBefore(text, i)
                  /\ text[i] \in Letters
                  /\ a <= Len(text) /\ text[a] = "-"
                  /\ b > a + 1
                  /\ BoundaryAfter(text, b),
        start |-> i, end |-> b]

\* The window the URL test looks at: text[start - 100 : end + 50]
ContextBefore == 100
ContextAfter == 50

\* re.search(r'https?://[^\s]+/[^\s]*?' + re.escape(issue_id) + r'[^\s]*',
\* context): somewhere in the window a scheme, at least one character, a
\* slash and an occurrence of the identifier, with no white space between.
InUrl(text, m) ==
    LET lo == IF m.start - ContextBefore > 1 THEN m.start - ContextBefore ELSE 1
        hi == Min(Len(text), m.end - 1 + ContextAfter)
        id == SubSeq(text, m.start, m.end - 1)
    IN \E q \in lo..hi, scheme \in {Http, Https} :
          /\ LitAt(text, q, scheme, hi)
          /\ LET e == q + Len(scheme)
                 n == RunEnd(text, e, NonSpace)
             IN \E o \in (e + 2)..hi :
                   /\ o + Len(id) <= n
                   /\ LitAt(text, o, id, hi)
                   /\ \E r \in (e + 1)..(o - 1) : text[r] = "/"

\* for match in re.finditer(short_pattern, text): the first match that the
\* URL test does not skip; matches do not overlap.
RECURSIVE SearchShort(_, _)
SearchShort(text, i) ==
    IF i > Len(text) THEN NotFound
    ELSE LET m == ShortAt(text, i)
         IN IF ~m.found THEN SearchShort(text, i + 1)
            ELSE IF InUrl(text, m) THEN SearchShort(text, m.end)
            ELSE [issue_id |-> SubSeq(text, m.start, m.end - 1), url |-> None]

\* full_url returned as matched.
FullUrl_AsMatched(matched) == matched

\* if not full_url.startswith('https://'): full_url = 'https://' + full_url
FullUrl(matched) ==
    IF Len(matched) >= Len(Https) /\ SubSeq(matched, 1, Len(Https)) = Https
    THEN matched ELSE Https \o matched

\* extract_linear_issue trying the short form before the links.
ExtractLinearIssue_ShortFirst(text) == SearchShort(text, 1)

\* LinearIssueParser.extract_linear_issue
ExtractLinearIssue(text) ==
    LET m1 == SearchLink(text, 1, 1)
        m2 == SearchLink(text, 1, 2)
        m == IF m1.found THEN m1 ELSE m2
    IN IF m.found
       THEN [issue_id |-> SubSeq(text, m.group, m.end - 1),
             url |-> FullUrl(SubSeq(text, m.start, m.end - 1))]
       ELSE SearchShort(text, 1)

\* The texts: an optional lead, then an optional scheme, a host with or
\* without something before it, a path and an identifier, then a trail.
IdA == <<"A", "-", "1">>
IdB == <<"B", "-", "2">>
Leads == {<<>>, IdA \o <<" ">>, IdB \o <<" ">>, <<"x", " ">>}
Schemes == {<<>>, Https, Http}
HostPrefixes == {<<>>, <<"n", "o", "t">>, <<"n", "o", "t", "-">>, <<"w", "w", "w", ".">>}
Hosts == {<<>>, LinearApp, <<"x", ".", "c", "o", "m">>}
Paths == {<<>>, IssueSeg, <<"/">>}
Ids == {<<>>, IdA, IdB}
Trails == {<<>>, <<" ">> \o IdA, <<" ">> \o IdB, <<"/", "x">>}

\* A path of n characters between the host and the rest.
LongPath(n) == IF n = 0 THEN <<>> ELSE <<"/">> \o [k \in 1..(n - 1) |-> "p"]

TextParts(pads) ==
    [lead : Leads, scheme : Schemes, prefix : HostPrefixes, host : Hosts,
     team : {<<>>, <<"/", "t">>}, path : Paths, id : Ids, trail : Trails,
     pad : {0}]
    \cup [lead : Leads, scheme : Schemes, prefix : {<<>>}, host : Hosts \ {<<>>},
          team : {<<>>}, path : {<<"/">>}, id : Ids \ {<<>>}, trail : Trails,
          pad : pads \ {0}]

Render(parts) ==
    parts.lead \o parts.scheme \o parts.prefix \o parts.host
    \o LongPath(parts.pad) \o parts.team \o parts.path \o parts.id \o parts.trail

NoParts == [lead |-> <<>>, scheme |-> <<>>, prefix |-> <<>>, host |-> <<>>,
            team |-> <<>>, path |-> <<>>, id |-> <<>>, trail |-> <<>>, pad |-> 0]
NotCalled == [issue_id |-> <<>>, url |-> <<>>]

ParserIdle ==
    /\ ip_parts = NoParts
    /\ ip_text = <<>>
    /\ ip_result = NotCalled

\* ---- presentation/api/slack_bot.py
\* str.lower()
Lower(text) ==
    [i \in 1..Len(text) |->
        IF \E k \in 1..Len(Uppercase) : Uppercase[k] = text[i]
        THEN Lowercase[CHOOSE k \in 1..Len(Uppercase) : Uppercase[k] = text[i]]
        ELSE text[i]]

\* word in text
Contains(text, word) ==
    \E i \in 1..Len(text) : LitAt(text, i, word, Len(text))

\* The word lists of _determine_agent_type, in the order of its if/elif chain.
DeveloperWords == {<<"d", "e", "v", "e", "l", "o", "p", "e", "r">>,
                   <<"d", "e", "v">>,
                   <<"i", "m", "p", "l", "e", "m", "e", "n", "t">>,
                   <<"c", "o", "d", "e">>}
TesterWords == {<<"t", "e", "s", "t", "e", "r">>, <<"t", "e", "s", "t">>, <<"q", "a">>}
ArchitectWords == {<<"a", "r", "c", "h", "i", "t", "e", "c", "t">>,
                   <<"a", "r", "c", "h", "i", "t", "e", "c", "t", "u", "r", "e">>,
                   <<"d", "e", "s", "i", "g", "n">>}

NoType == "None"

\* _determine_agent_type
DetermineAgentType(text) ==
    LET text_lower == Lower(text)
        any(words) == \E word \in words : Contains(text_lower, word)
    IN IF any(DeveloperWords) THEN "developer"
       ELSE IF any(TesterWords) THEN "tester"
       ELSE IF any(ArchitectWords) THEN "architect"
       ELSE NoType

\* type_to_mention.get(agent_type)
TypeToMention(agent_type) ==
    CASE agent_type = "developer" -> "@developer"
      [] agent_type = "tester" -> "@tester"
      [] agent_type = "architect" -> "@architect"
      [] OTHER -> "None"

NoSlackAgent == Agent("None", "None")

\* _find_agent_by_type: no handle for the type gives None, else the first
\* agent of the project with the handle, None when there is none.
FindAgentByType(proj, agent_type) ==
    LET mention == TypeToMention(agent_type)
        hits == {i \in 1..Len(proj.agents) : proj.agents[i].mention = mention}
    IN IF mention = "None" \/ hits = {} THEN NoSlackAgent
       ELSE proj.agents[CHOOSE i \in hits : \A j \in hits : i <= j]

\* Projects of a configuration: their agents are up to two of these.
SlackAgents ==
    {Agent("@developer", "Dev"), Agent("@developer", "Dev2"),
     Agent("@tester", "QA"), Agent("@architect", "Arch"),
     Agent("@reviewer", "Rev")}
SlackProjects ==
    {ProjectConfig("P1", ags) :
        ags \in {<<>>} \cup {<<x>> : x \in SlackAgents}
                \cup {<<x, y>> : x, y \in SlackAgents}}
NoSlackProject == ProjectConfig("None", <<>>)

\* Words of a message, and the messages: a bot mention and up to two words.
Words ==
    {<<"d", "e", "v", "e", "l", "o", "p", "e", "r">>, <<"d", "e", "v">>,
     <<"i", "m", "p", "l", "e", "m", "e", "n", "t">>, <<"c", "o", "d", "e">>, <<"d", "e", "c", "o", "d", "e">>,
     <<"t", "e", "s", "t", "e", "r">>, <<"t", "e", "s", "t">>, <<"Q", "A">>,
     <<"a", "r", "c", "h", "i", "t", "e", "c", "t">>, <<"a", "r", "c", "h", "i", "t", "e", "c", "t", "u", "r", "e">>,
     <<"D", "E", "S", "I", "G", "N">>, <<"R", "e", "v", "i", "e", "w">>, <<"r", "e", "v", "i", "e", "w", "e", "r">>,
     <<"h", "e", "l", "p">>, <<"f", "i", "x">>}
Mention == <<"<", "@", "U", "1", ">">>
Messages ==
    {Mention \o <<" ">> \o w : w \in Words}
    \cup {Mention \o <<" ">> \o w \o <<" ">> \o v : w, v \in Words}

Pending == "pending"
DetermineCall(text, result) == [fn |-> "determine", text |-> text, result |-> result]
FindCall(proj, type, result) ==
    [fn |-> "find", proj |-> proj, type |-> type, found |-> result]
TypeTokens == {"developer", "tester", "architect", "reviewer", "invalid_type"}
NoCall == [fn |-> "none"]

\* An event: its ts, and its thread_ts when it was posted in a thread.
Event(ts, thread_ts) == [ts |-> ts, thread_ts |-> thread_ts]
NoEvent == Event("None", "None")
Events == {Event("T0", th) : th \in {"None", "", "T1"}}

\* event.get('thread_ts') or event.get('ts')
ThreadTs_Ts(event) == event.ts

ThreadTs(event) ==
    IF event.thread_ts \in {"None", ""} THEN event.ts ELSE event.thread_ts

\* What handle_mention calls, in order.
Ack == [op |-> "ack", arg |-> ""]
Say(kind) == [op |-> "say", arg |-> kind, thread |-> ThreadTs(sb_event)]
DispatchCall(outcome) == [op |-> "dispatch", arg |-> outcome]

\* AgentDispatcher.dispatch_agent_task_with_callback, which handle_mention
\* imports from agent_engine: it returns whether the task was started, or
\* raises.
DispatchOutcomes == {"true", "false", "raises"}

\* What handle_mention posts after the dispatch: the failure message when
\* it returned false, the error message of the except clause when it raised.
AfterDispatch_Always(outcome) == <<Say("dispatch_failed")>>

AfterDispatch(outcome) ==
    IF outcome = "raises" THEN <<Say("error")>>
    ELSE IF outcome = "false" THEN <<Say("dispatch_failed")>>
    ELSE <<>>

\* Issue references of a message: none, an identifier, a tracker link.
IssueLink == Https \o LinearApp \o <<"/", "t">> \o IssueSeg \o IdA
IssueRefs == {<<>>, <<" ">> \o IdA, <<" ">> \o IssueLink}
SlackWords ==
    {w \in Words : Len(w) # 3 /\ Len(w) # 8}
SlackTexts ==
    {Mention \o <<" ">> \o w \o ref : w \in SlackWords, ref \in IssueRefs}

\* config.json as _get_project_from_issue finds it: unreadable or not JSON,
\* or a list of projects.
Unreadable == <<ProjectConfig("unreadable", <<>>)>>
SlackConfigs ==
    {Unreadable, <<>>}
    \cup {<<ProjectConfig("P1", ags)>> :
             ags \in {<<>>, <<Agent("@developer", "Dev")>>,
                      <<Agent("@tester", "QA"), Agent("@architect", "Arch")>>}}

\* _get_project_from_issue: config[0] if config else None; None on any error
GetProjectFromIssue(config) ==
    IF config = Unreadable \/ config = <<>> THEN NoSlackProject ELSE config[1]

NothingFound ==
    [issue_id |-> None, agent_type |-> NoType, project |-> NoSlackProject,
     agent |-> NoSlackAgent]

SlackIdle ==
    /\ fn_call = NoCall
    /\ sb_pc = "idle"
    /\ sb_text = <<>>
    /\ sb_event = NoEvent
    /\ sb_config = <<>>
    /\ sb_found = NothingFound
    /\ sb_log = <<>>

ExtIdle == RaceIdle /\ ParserIdle /\ ExtractIdle /\ SlackIdle /\ PipeIdle

\* ------------------------------------------------------------ the workflow
Call(step, arg, ok) == [step |-> step, arg |-> arg, ok |-> ok]

CurrentGit == GitState(heads, active_branch, head_tree, index, commits, pushed)

SetGit(r) ==
    /\ heads' = r.heads
    /\ active_branch' = r.active
    /\ head_tree' = r.head_tree
    /\ index' = r.index
    /\ commits' = r.commits
    /\ pushed' = r.pushed
    /\ gitops' = gitops \o r.ops

\* execute_workflow without its `if not code_blocks` check, and without
\* its `if not written_files` check.
NoCodeBlocks_Never(blocks) == FALSE
NothingWritten_Never(written) == FALSE

\* execute_workflow running the test step whatever args.test_command is.
TestsConfigured_Always(command) == TRUE

\* The conditions execute_workflow branches on.
GenerationFailed(response) == ResponseFalsy(response)
NoCodeBlocks(blocks) == blocks = <<>>
NothingWritten(written) == written = <<>>
TestsConfigured(command) == command # ""

\* The first run of an issue, and a later one: the git commands and the
\* reports that came before it, and whether an earlier run created the
\* feature branch.
FirstRun == [n |-> 1, ops |-> 0, reports |-> 0, created |-> FALSE]

\* Exceptions that no callee catches.
Exceptions == {"TypeError"}

\* A file no response names: absent, untracked, committed and clean, or
\* committed and edited since.
NotesStates ==
    {[committed |-> NoFile, on_disk |-> NoFile],
     [committed |-> NoFile, on_disk |-> OldContent],
     [committed |-> OldContent, on_disk |-> OldContent],
     [committed |-> OldContent, on_disk |-> <<"edited">>]}

\* The repository as a run finds it: a main line that origin has too, the
\* feature branch present or not on either side, every branch at the same
\* commit, nothing staged.
Init ==
    /\ pc = "main"
    /\ env_ok \in BOOLEAN
    /\ repo_valid \in BOOLEAN
    /\ test_command \in {"", "pytest"}
    /\ \E mainline \in {<<"main">>, <<"master">>} :
           /\ heads \in {{mainline}, {mainline, branch_name}}
           /\ origin_refs \in {{OriginRef(mainline)},
                               {OriginRef(mainline), OriginRef(branch_name)}}
    /\ active_branch \in heads
    /\ \E a \in {NoFile, GenContent, OldContent}, n \in NotesStates :
           /\ head_tree = [p \in TreePaths |->
                              IF p = "a.py" THEN a
                              ELSE IF p = "notes.txt" THEN n.committed ELSE NoFile]
           /\ worktree = [p \in TreePaths |->
                             IF p = "a.py" THEN a
                             ELSE IF p = "notes.txt" THEN n.on_disk ELSE NoFile]
    /\ index = head_tree
    /\ claude_response = NoResponse
    /\ code_blocks = <<>>
    /\ written_files = <<>>
    /\ test_run = NotRun
    /\ test_success = FALSE
    /\ test_output = NoOutput
    /\ exc = ""
    /\ reports = <<>>
    /\ calls = <<>>
    /\ gitops = <<>>
    /\ commits = <<>>
    /\ pushed = {}
    /\ rerun = FirstRun
    /\ CtxIdle
    /\ WhIdle
    /\ ExtIdle

\* main(): missing keys exit; a constructor that raises (GitManager on a
\* path that is no repository) is logged and exits; else the workflow runs.
Main ==
    /\ pc = "main"
    /\ pc' = IF env_ok /\ repo_valid THEN "checkout" ELSE "exited"
    /\ UNCHANGED <<other_vars, rerun, arg_vars, repo_vars, tree_vars, gen_vars, test_vars, exc,
                   reports, calls, gitops, commits, pushed>>

\* Step 1
Checkout ==
    /\ pc = "checkout"
    /\ \E fail_at \in 0..(1 + Len(CheckoutPlan(branch_name, TRUE, heads, origin_refs))) :
          LET r == CheckoutBranch(branch_name, TRUE, fail_at, CurrentGit,
                                  origin_refs, worktree)
          IN /\ SetGit(r)
             /\ calls' = Append(calls, Call("checkout", "", r.ok))
             /\ IF ~r.ok
                THEN AddComment(ReportFailure(<<"Failed to checkout branch">>))
                ELSE pc' = "context" /\ reports' = reports
    /\ UNCHANGED <<other_vars, rerun, arg_vars, origin_refs, worktree, gen_vars, test_vars, exc>>

\* Step 2: _gather_context never fails
GatherContext ==
    /\ pc = "context"
    /\ calls' = Append(calls, Call("context", "", TRUE))
    /\ pc' = "generate"
    /\ UNCHANGED <<other_vars, rerun, arg_vars, repo_vars, tree_vars, gen_vars, test_vars, exc,
                   reports, gitops, commits, pushed>>

\* Step 3
Generate ==
    /\ pc = "generate"
    /\ \E r \in {NoResponse} \cup {TextResponse(ls) : ls \in Responses} :
          /\ claude_response' = r
          /\ calls' = Append(calls, Call("generate", "", ~GenerationFailed(r)))
          /\ IF GenerationFailed(r)
             THEN AddComment(ReportFailure(<<"Failed to generate code with Claude AI">>))
             ELSE pc' = "extract" /\ reports' = reports
    /\ UNCHANGED <<other_vars, rerun, arg_vars, repo_vars, tree_vars, code_blocks, written_files,
                   test_vars, exc, gitops, commits, pushed>>

\* Step 4, extraction
Extract ==
    /\ pc = "extract"
    /\ LET blocks == ExtractCodeBlocks(claude_response.lines)
       IN /\ code_blocks' = blocks
          /\ calls' = Append(calls, Call("extract", "", ~NoCodeBlocks(blocks)))
          /\ IF NoCodeBlocks(blocks)
             THEN AddComment(ReportFailure(<<"No code blocks found in Claude response">>))
             ELSE pc' = "write" /\ reports' = reports
    /\ UNCHANGED <<other_vars, rerun, arg_vars, repo_vars, tree_vars, claude_response, written_files,
                   test_vars, exc, gitops, commits, pushed>>

\* extract_code_blocks has no handler of its own: what it raises reaches
\* execute_workflow's except clause.
ExtractRaises ==
    /\ pc = "extract"
    /\ exc' \in Exceptions
    /\ calls' = Append(calls, Call("extract", "", FALSE))
    /\ pc' = "except"
    /\ UNCHANGED <<other_vars, rerun, arg_vars, repo_vars, tree_vars, gen_vars, test_vars,
                   reports, gitops, commits, pushed>>

\* Step 4, the write loop: write_file_content returns False for the paths
\* in `failed` and writes the others.
WriteFiles ==
    /\ pc = "write"
    /\ LET keys == DictKeys(code_blocks)
       IN \E failed \in SUBSET Range(keys) :
             LET written == SelectIn(keys, Range(keys) \ failed)
                 content == [i \in 1..Len(code_blocks) |->
                                code_blocks[i].content]
             IN /\ written_files' = written
                /\ worktree' = [p \in TreePaths |->
                      IF p \in Range(written)
                      THEN content[CHOOSE i \in 1..Len(keys) : keys[i] = p]
                      ELSE worktree[p]]
                /\ calls' = calls \o [i \in 1..Len(keys) |->
                                         Call("write", keys[i], keys[i] \notin failed)]
                /\ IF NothingWritten(written)
                   THEN AddComment(ReportFailure(<<"Failed to write any files">>))
                   ELSE /\ pc' = IF TestsConfigured(test_command)
                                 THEN "test" ELSE "commit"
                        /\ reports' = reports
    /\ UNCHANGED <<other_vars, rerun, arg_vars, repo_vars, head_tree, index, claude_response,
                   code_blocks, test_vars, exc, gitops, commits, pushed>>

\* Step 5
Test ==
    /\ pc = "test"
    /\ \E run \in TestRuns :
          LET r == RunTests(run)
          IN /\ test_run' = run
             /\ test_success' = r.success
             /\ test_output' = r.output
             /\ calls' = Append(calls, Call("test", "", r.success))
             /\ IF r.success
                THEN pc' = "commit" /\ reports' = reports
                ELSE AddComment(ReportTestFailure(r.output))
    /\ UNCHANGED <<other_vars, rerun, arg_vars, repo_vars, tree_vars, gen_vars, exc, gitops,
                   commits, pushed>>

\* Step 6, commit
Commit ==
    /\ pc = "commit"
    /\ \E fail_at \in 0..(Len(written_files) + 1) :
          LET r == StageAndCommit(written_files, fail_at, CurrentGit,
                                  origin_refs, worktree)
          IN /\ SetGit(r)
             /\ calls' = Append(calls, Call("commit", "", r.ok))
             /\ IF r.ok
                THEN pc' = "push" /\ reports' = reports
                ELSE AddComment(ReportFailure(<<"Failed to commit changes">>))
    /\ UNCHANGED <<other_vars, rerun, arg_vars, origin_refs, worktree, gen_vars, test_vars, exc>>

\* Step 6, push, and the success report
Push ==
    /\ pc = "push"
    /\ \E fail_at \in 0..1 :
          LET r == PushToRemote(branch_name, fail_at, CurrentGit, origin_refs,
                                worktree)
          IN /\ SetGit(r)
             /\ calls' = Append(calls, Call("push", "", r.ok))
             /\ IF r.ok
                THEN AddComment(ReportSuccess(claude_response, written_files,
                        IF TestsConfigured(test_command) THEN test_output
                        ELSE Output("no_tests", NoTestsMsgLen)))
                ELSE AddComment(ReportFailure(<<"Failed to push changes to remote">>))
    /\ UNCHANGED <<other_vars, rerun, arg_vars, origin_refs, worktree, gen_vars, test_vars, exc>>

\* An except clause that logs and raises again: main() catches and exits.
HandleException_Reraise ==
    /\ pc = "except"
    /\ pc' = "exited"
    /\ UNCHANGED <<other_vars, rerun, arg_vars, repo_vars, tree_vars, gen_vars, test_vars, exc,
                   reports, calls, gitops, commits, pushed>>

\* except Exception as e: self._report_failure(f"Unexpected error: {str(e)}")
HandleException ==
    /\ pc = "except"
    /\ AddComment(ReportFailure(<<"Unexpected error: ", exc>>))
    /\ UNCHANGED <<other_vars, rerun, arg_vars, repo_vars, tree_vars, gen_vars, test_vars, exc,
                   calls, gitops, commits, pushed>>

Next ==
    \/ Main
    \/ Checkout
    \/ GatherContext
    \/ Generate
    \/ Extract
    \/ ExtractRaises
    \/ WriteFiles
    \/ Test
    \/ Commit
    \/ Push
    \/ HandleException

Spec == Init /\ [][Next]_vars

\* ------------------------------------------ the same issue triggered again
\* A person mentions the agent again after a run has ended: main() runs
\* once more, with the same arguments, on the repository as the run left it.
Retrigger ==
    /\ pc \in {"done", "exited"}
    /\ rerun.n < MaxRuns
    /\ rerun' = [n |-> rerun.n + 1, ops |-> Len(gitops), reports |-> Len(reports),
                 created |-> \E i \in 1..Len(gitops) :
                                /\ gitops[i].op = "checkout_new"
                                /\ gitops[i].arg = branch_name
                                /\ gitops[i].ok]
    /\ pc' = "main"
    /\ claude_response' = NoResponse
    /\ code_blocks' = <<>>
    /\ written_files' = <<>>
    /\ test_run' = NotRun
    /\ test_success' = FALSE
    /\ test_output' = NoOutput
    /\ exc' = ""
    /\ UNCHANGED <<other_vars, arg_vars, repo_vars, tree_vars, reports, calls,
                   gitops, commits, pushed>>

RerunNext ==
    \/ Next
    \/ Retrigger

RerunSpec == Init /\ [][RerunNext]_vars

\* ------------------------------------------- _gather_context, step by step
\* The workflow's variables while another part of the system is checked.
WfIdle ==
    /\ pc = "idle"
    /\ env_ok = TRUE
    /\ repo_valid = TRUE
    /\ test_command = ""
    /\ heads = {<<"main">>}
    /\ origin_refs = {OriginRef(<<"main">>)}
    /\ active_branch = <<"main">>
    /\ head_tree = [p \in TreePaths |-> NoFile]
    /\ index = head_tree
    /\ worktree = head_tree
    /\ claude_response = NoResponse
    /\ code_blocks = <<>>
    /\ written_files = <<>>
    /\ test_run = NotRun
    /\ test_success = FALSE
    /\ test_output = NoOutput
    /\ exc = ""
    /\ reports = <<>>
    /\ calls = <<>>
    /\ gitops = <<>>
    /\ commits = <<>>
    /\ pushed = {}
    /\ rerun = FirstRun

ContextInit ==
    /\ WfIdle
    /\ WhIdle
    /\ ExtIdle
    /\ ctx_pc = "loop"
    /\ ctx_repo \in CtxRepos
    /\ ctx_pattern = 1
    /\ ctx_k = 1
    /\ context_files = {}

\* One turn of the inner loop: a path that is a file is read and, if its
\* content is non-empty and under the size cap, stored under its path.
GatherFile ==
    /\ ctx_pc = "loop"
    /\ ctx_k <= Len(Matches(ctx_repo, Patterns[ctx_pattern]))
    /\ LET f == Matches(ctx_repo, Patterns[ctx_pattern])[ctx_k]
           len == ContentLen(ctx_repo, f)
       IN context_files' =
              IF IsFile(ctx_repo, f) /\ Admitted(len)
              THEN ContextSet(context_files, f, len)
              ELSE context_files
    /\ ctx_k' = ctx_k + 1
    /\ UNCHANGED <<wf_vars, ext_vars, wh_vars, ctx_pc, ctx_repo, ctx_pattern>>

\* The inner loop is over: break if the mapping is over the cap, else go on
\* with the next pattern; after the last pattern the mapping is returned.
GatherPatternEnd ==
    /\ ctx_pc = "loop"
    /\ ctx_k > Len(Matches(ctx_repo, Patterns[ctx_pattern]))
    /\ IF OverCap(context_files) \/ ctx_pattern = Len(Patterns)
       THEN ctx_pc' = "done" /\ UNCHANGED <<ctx_pattern, ctx_k>>
       ELSE ctx_pc' = "loop" /\ ctx_pattern' = ctx_pattern + 1 /\ ctx_k' = 1
    /\ UNCHANGED <<wf_vars, ext_vars, wh_vars, ctx_repo, context_files>>

\* except Exception: whatever the walk raises (a directory that cannot be
\* listed) is logged, and the mapping built so far is returned.
GatherRaises ==
    /\ ctx_pc = "loop"
    /\ ctx_pc' = "done"
    /\ UNCHANGED <<wf_vars, ext_vars, wh_vars, ctx_repo, ctx_pattern, ctx_k, context_files>>

ContextNext ==
    \/ GatherFile
    \/ GatherPatternEnd
    \/ GatherRaises

ContextSpec == ContextInit /\ [][ContextNext]_vars

\* ------------------------------------------- the webhook server, step by step
\* The handler with its signature check taken out.
SignatureRejected_Never(valid) == FALSE

\* if not webhook_validator.validate_signature(body, signature)
SignatureRejected(valid) == ~valid

\* dispatch_agent_task written with subprocess.run: it returns when the
\* process has exited.
DispatchReturns_Waits(state) == state = "exited"

\* dispatch_agent_task returns True right after Popen, in whatever state the
\* process it started is: it neither waits for it nor reads its pipes, and
\* the Popen object is a local that no one keeps.
DispatchReturns(state) == TRUE

\* The life of a dispatched process.
TaskAfter(state) == IF state = "running" THEN "reported" ELSE "exited"

\* ConfigManager.load_config: the cache if there is one, else the file,
\* which is cached when it parses.
LoadConfig(cache, file) ==
    IF cache.loaded THEN [raises |-> "", value |-> cache]
    ELSE CASE file = "missing" ->
                  [raises |-> "Configuration file not found", value |-> cache]
           [] file = "malformed" ->
                  [raises |-> "Invalid configuration file format", value |-> cache]
           [] OTHER -> [raises |-> "", value |-> Loaded(ConfigContent)]

\* One call the handler made: what it called, how the call ended, and for
\* the calls of the dispatch loop the mention they were made for.
StepFor(name, arg, mention) == [step |-> name, arg |-> arg, mention |-> mention]
Step(name, arg) == StepFor(name, arg, <<>>)

\* The response is sent: the handler is over.
Respond(r) ==
    /\ http_response' = r
    /\ wh_pc' = "responded"

\* A server waiting for a request: with a secret or none, and with its
\* configuration not loaded yet or cached by an earlier request.
WebhookInit ==
    /\ WfIdle
    /\ CtxIdle
    /\ ExtIdle
    /\ wh_pc = "wait"
    /\ webhook_secret \in Secrets
    /\ \/ config_file \in {"missing", "malformed", "ok"} /\ config_cache = NoConfig
       \/ config_file = "ok" /\ config_cache = Loaded(ConfigContent)
    /\ request = NoRequest
    /\ LocalsFresh
    /\ wh_steps = <<>>
    /\ http_response = NoHttpResponse

\* A request arrives: body = await request.body(), signature = the header
Receive ==
    /\ wh_pc = "wait"
    /\ request' \in Requests(MaxText)
    /\ wh_pc' = "validate"
    /\ UNCHANGED <<wf_vars, ext_vars, ctx_vars, webhook_secret, config_file, config_cache,
                   wh_locals, wh_steps, http_response>>

\* The signature check: 401 when it returns False; what it raises reaches
\* the handler's `except Exception`.
Validate ==
    /\ wh_pc = "validate"
    /\ LET r == ValidateSignature(webhook_secret, request.body, request.signature)
       IN /\ wh_steps' = Append(wh_steps, Step("validate_signature",
                                    IF r.raises # "" THEN "raised"
                                    ELSE IF r.value THEN "true" ELSE "false"))
          /\ IF r.raises # "" THEN Respond(InternalError)
             ELSE IF SignatureRejected(r.value)
                  THEN Respond(HttpError(401, "Invalid webhook signature"))
                  ELSE wh_pc' = "parse" /\ http_response' = http_response
    /\ UNCHANGED <<wf_vars, ext_vars, ctx_vars, webhook_secret, config_file, config_cache,
                   request, wh_locals>>

\* json.loads(body.decode('utf-8')) and LinearWebhookPayload(**payload)
Parse ==
    /\ wh_pc = "parse"
    /\ wh_steps' = Append(wh_steps, Step("json_loads", request.body.kind))
    /\ CASE request.body.kind = "not_utf8" -> Respond(InternalError)
         [] request.body.kind = "not_json" ->
                Respond(HttpError(400, "Invalid JSON payload"))
         [] request.body.kind = "bad_schema" ->
                Respond(HttpError(400, "Invalid webhook payload structure"))
         [] OTHER -> wh_pc' = "extract" /\ http_response' = http_response
    /\ UNCHANGED <<wf_vars, ext_vars, ctx_vars, webhook_secret, config_file, config_cache,
                   request, wh_locals>>

\* extract_comment_data and the project id check
Extract_Comment ==
    /\ wh_pc = "extract"
    /\ LET r == ExtractCommentData(request.body.payload)
       IN /\ wh_steps' = Append(wh_steps, Step("extract_comment_data",
                                    IF r.raises # "" THEN "raised"
                                    ELSE IF r.value = NoCommentData THEN "none"
                                    ELSE "data"))
          /\ comment_data' = r.value
          /\ IF r.raises # "" THEN Respond(InternalError)
             ELSE IF r.value = NoCommentData
             THEN Respond(WebhookResponse(
                      "Webhook received but not a comment event", FALSE, 0))
             ELSE IF ~Truthy(r.value.project_id)
             THEN Respond(WebhookResponse(
                      "No project ID found in webhook", FALSE, 0))
             ELSE wh_pc' = "project" /\ http_response' = http_response
    /\ UNCHANGED <<wf_vars, ext_vars, ctx_vars, webhook_secret, config_file, config_cache,
                   request, project, mentions, wh_i, dispatched_count, spawned,
                   task_state>>

\* find_project_by_id (which loads the configuration) and
\* find_agent_mentions; re.findall raises TypeError on a body of None.
FindProject ==
    /\ wh_pc = "project"
    /\ LET c == LoadConfig(config_cache, config_file)
           proj == FindProjectById(c.value.projects, comment_data.project_id.v)
           found == IF comment_data.comment_body = Null THEN <<>>
                    ELSE FindAgentMentions(comment_data.comment_body.v)
       IN /\ config_cache' = c.value
          /\ IF c.raises # ""
             THEN /\ wh_steps' = Append(wh_steps, Step("load_config", "raised"))
                  /\ Respond(HttpError(500, c.raises))
                  /\ UNCHANGED <<project, mentions>>
             ELSE IF proj = NoProject
             THEN /\ wh_steps' = wh_steps \o <<Step("load_config", "loaded"),
                                              Step("find_project_by_id", "none")>>
                  /\ Respond(WebhookResponse("Unknown project ID", FALSE, 0))
                  /\ UNCHANGED <<project, mentions>>
             ELSE IF comment_data.comment_body = Null
             THEN /\ wh_steps' = wh_steps \o <<Step("load_config", "loaded"),
                                              Step("find_project_by_id", "found"),
                                              Step("find_agent_mentions", "raised")>>
                  /\ project' = proj
                  /\ Respond(InternalError)
                  /\ UNCHANGED mentions
             ELSE /\ wh_steps' = wh_steps \o <<Step("load_config", "loaded"),
                                              Step("find_project_by_id", "found"),
                                              Step("find_agent_mentions", "list")>>
                  /\ project' = proj
                  /\ mentions' = found
                  /\ IF found = <<>>
                     THEN Respond(WebhookResponse(
                              "No agent mentions found in comment", FALSE, 0))
                     ELSE wh_pc' = "dispatch" /\ http_response' = http_response
    /\ UNCHANGED <<wf_vars, ext_vars, ctx_vars, webhook_secret, config_file, request,
                   comment_data, wh_i, dispatched_count, spawned, task_state>>

\* One turn of `for mention in mentions`: a mention that names an agent of
\* the project is dispatched, and Popen starts the process or raises (then
\* dispatch_agent_task returns False); another mention is logged.
DispatchMention ==
    /\ wh_pc = "dispatch"
    /\ wh_i <= Len(mentions)
    /\ \A t \in 1..Len(task_state) : DispatchReturns(task_state[t])
    /\ LET agent == FindAgentByMention(project, mentions[wh_i])
       IN IF agent = NoAgent
          THEN /\ wh_steps' = Append(wh_steps,
                                StepFor("find_agent_by_mention", "none",
                                        mentions[wh_i]))
               /\ UNCHANGED <<dispatched_count, spawned, task_state>>
          ELSE \E success \in BOOLEAN :
                  /\ wh_steps' = wh_steps \o
                         <<StepFor("find_agent_by_mention", "found",
                                   mentions[wh_i]),
                           StepFor("dispatch_agent_task",
                                   IF success THEN "true" ELSE "false",
                                   mentions[wh_i])>>
                  /\ spawned' = IF success
                                THEN Append(spawned,
                                        [mention |-> mentions[wh_i],
                                         role |-> agent.role,
                                         issue_id |-> comment_data.issue_id.v,
                                         project_id |-> project.linearProjectId])
                                ELSE spawned
                  /\ task_state' = IF success THEN Append(task_state, "running")
                                   ELSE task_state
                  /\ dispatched_count' = dispatched_count + (IF success THEN 1 ELSE 0)
    /\ wh_i' = wh_i + 1
    /\ UNCHANGED <<wf_vars, ext_vars, ctx_vars, wh_pc, webhook_secret, config_file,
                   config_cache, request, comment_data, project, mentions,
                   http_response>>

\* After the loop: the response says how many tasks were dispatched.
FinishDispatch ==
    /\ wh_pc = "dispatch"
    /\ wh_i > Len(mentions)
    /\ \A t \in 1..Len(task_state) : DispatchReturns(task_state[t])
    /\ IF dispatched_count > 0
       THEN Respond(WebhookResponse("Successfully dispatched agent task(s)",
                                    TRUE, dispatched_count))
       ELSE Respond(WebhookResponse(
                "No valid agent mentions found for this project", FALSE, 0))
    /\ UNCHANGED <<wf_vars, ext_vars, ctx_vars, webhook_secret, config_file, config_cache,
                   request, wh_locals, wh_steps>>

\* A started agent_engine.py process goes its own way, whatever the handler
\* does: it runs, posts its report to the issue, and exits.
TaskStep ==
    /\ \E t \in 1..Len(task_state) :
          /\ task_state[t] # "exited"
          /\ task_state' = [task_state EXCEPT ![t] = TaskAfter(task_state[t])]
    /\ UNCHANGED <<wf_vars, ext_vars, ctx_vars, wh_pc, webhook_secret, config_file,
                   config_cache, request, comment_data, project, mentions, wh_i,
                   dispatched_count, spawned, wh_steps, http_response>>

WebhookNext ==
    \/ Receive
    \/ Validate
    \/ Parse
    \/ Extract_Comment
    \/ FindProject
    \/ DispatchMention
    \/ FinishDispatch
    \/ TaskStep

WebhookSpec == WebhookInit /\ [][WebhookNext]_vars

\* --------------------------------------- two runs in one repository, step by step
\* execute_workflow behind a lock file of the repository: a run starts only
\* when no other run is between its checkout and its end.
RepoFree_Locked(pcs, t) == \A u \in Tasks \ {t} : pcs[u] \in {"checkout", "done"}

\* Whether a run may start its work in the repository, given where the other
\* runs stand: neither GitManager nor execute_workflow takes a lock or looks
\* for another run, so it always may.
RepoFree(pcs, t) == TRUE

\* The repository with main checked out, and both processes started.
RaceInit ==
    /\ WfIdle
    /\ PipeIdle
    /\ CtxIdle
    /\ WhIdle
    /\ ParserIdle
    /\ ExtractIdle
    /\ SlackIdle
    /\ race_pc = [t \in Tasks |-> "checkout"]
    /\ race_log = <<>>

RaceUnchanged ==
    UNCHANGED <<ctx_vars, wh_vars, ip_vars, xb_vars, sb_vars, pipe_vars, rerun,
                pc, arg_vars, origin_refs, worktree,
                gen_vars, test_vars, exc, reports, calls>>

\* A step that runs in the working tree as it stands: it is logged with the
\* branch checked out at that moment, and the run goes on or ends.
RaceStepIn(t, step, next) ==
    /\ race_pc[t] = step
    /\ race_log' = Append(race_log, [task |-> t, step |-> step,
                                     branch |-> active_branch])
    /\ race_pc' \in {[race_pc EXCEPT ![t] = np] : np \in next}

\* Step 1 of a run: checkout_branch(self.branch_name); False ends the run
\* with a failure report.
RaceCheckout(t) ==
    /\ race_pc[t] = "checkout"
    /\ RepoFree(race_pc, t)
    /\ \E fail_at \in 0..(1 + Len(CheckoutPlan(TaskBranch(t), TRUE, heads, origin_refs))) :
          LET r == CheckoutBranch(TaskBranch(t), TRUE, fail_at, CurrentGit,
                                  origin_refs, worktree)
          IN /\ SetGit(r)
             /\ race_pc' = [race_pc EXCEPT ![t] = IF r.ok THEN "generate" ELSE "done"]
    /\ UNCHANGED race_log
    /\ RaceUnchanged

\* Steps 2 and 3: the context is read and the API is called, which takes
\* its time and leaves the repository alone; no response ends the run.
RaceGenerate(t) ==
    /\ race_pc[t] = "generate"
    /\ race_pc' \in {[race_pc EXCEPT ![t] = np] : np \in {"write", "done"}}
    /\ UNCHANGED <<race_log, repo_vars, tree_vars, gitops, commits, pushed>>
    /\ RaceUnchanged

\* Step 4: the files are written into the working tree; the tests follow
\* if a test command was given, else the commit.
RaceWrite(t) ==
    /\ RaceStepIn(t, "write", {"test", "commit", "done"})
    /\ UNCHANGED <<repo_vars, tree_vars, gitops, commits, pushed>>
    /\ RaceUnchanged

\* Step 5: the test command runs in the working tree; a failure ends the run.
RaceTest(t) ==
    /\ RaceStepIn(t, "test", {"commit", "done"})
    /\ UNCHANGED <<repo_vars, tree_vars, gitops, commits, pushed>>
    /\ RaceUnchanged

\* Step 6: stage_and_commit commits on whatever branch is checked out, then
\* push_to_remote pushes the run's own branch and the run reports and ends.
RaceCommit(t) ==
    /\ RaceStepIn(t, "commit", {"push", "done"})
    /\ UNCHANGED <<repo_vars, tree_vars, gitops, commits, pushed>>
    /\ RaceUnchanged

RacePush(t) ==
    /\ race_pc[t] = "push"
    /\ race_pc' = [race_pc EXCEPT ![t] = "done"]
    /\ UNCHANGED <<race_log, repo_vars, tree_vars, gitops, commits, pushed>>
    /\ RaceUnchanged

RaceTask(t) ==
    \/ RaceCheckout(t)
    \/ RaceGenerate(t)
    \/ RaceWrite(t)
    \/ RaceTest(t)
    \/ RaceCommit(t)
    \/ RacePush(t)

RaceNext ==
    \/ \E t \in Tasks : RaceCheckout(t)
    \/ \E t \in Tasks : RaceGenerate(t)
    \/ \E t \in Tasks : RaceWrite(t)
    \/ \E t \in Tasks : RaceTest(t)
    \/ \E t \in Tasks : RaceCommit(t)
    \/ \E t \in Tasks : RacePush(t)

RaceSpec == RaceInit /\ [][RaceNext]_vars

\* --------------------------------------------------- extract_linear_issue
ParserInit ==
    /\ WfIdle
    /\ PipeIdle
    /\ CtxIdle
    /\ WhIdle
    /\ RaceIdle
    /\ ExtractIdle
    /\ SlackIdle
    /\ ip_parts \in TextParts({0, MaxPad})
    /\ ip_text = Render(ip_parts)
    /\ ip_result = NotCalled

ExtractIssue ==
    /\ ip_result = NotCalled
    /\ ip_result' = ExtractLinearIssue(ip_text)
    /\ UNCHANGED <<wf_vars, ctx_vars, wh_vars, race_vars, xb_vars, sb_vars,
                   pipe_vars, ip_parts, ip_text>>

ParserNext == ExtractIssue

ParserSpec == ParserInit /\ [][ParserNext]_vars

\* --------------------------------------------------- extract_code_blocks
ExtractInit ==
    /\ WfIdle
    /\ PipeIdle
    /\ CtxIdle
    /\ WhIdle
    /\ RaceIdle
    /\ ParserIdle
    /\ SlackIdle
    /\ xb_segs \in SegSeqs(MaxSegs + 1)
    /\ xb_blocks = NotExtracted

ExtractBlocks ==
    /\ xb_blocks = NotExtracted
    /\ xb_blocks' = ExtractCodeBlocks(ResponseOf(xb_segs))
    /\ UNCHANGED <<wf_vars, ctx_vars, wh_vars, race_vars, ip_vars, sb_vars,
                   pipe_vars, xb_segs>>

ExtractNext == ExtractBlocks

ExtractSpec == ExtractInit /\ [][ExtractNext]_vars

\* ----------------------------------------- task processes and their pipes
\* what a part leaves alone
PipeRest == <<wf_vars, ctx_vars, wh_vars, race_vars, ip_vars, xb_vars, sb_vars>>
SlackRest == <<wf_vars, ctx_vars, wh_vars, race_vars, ip_vars, xb_vars, pipe_vars>>

PipeInit ==
    /\ WfIdle
    /\ CtxIdle
    /\ WhIdle
    /\ RaceIdle
    /\ ParserIdle
    /\ ExtractIdle
    /\ SlackIdle
    /\ PipeIdle

\* A write of n units to a pipe that holds fill returns when the pipe has
\* room for them, and waits until then.
PipeTakes_Unbounded(fill, n) == TRUE

PipeTakes(fill, n) == fill + n <= PipeCapacity

\* dispatch_agent_task: subprocess.Popen with stdout=PIPE and stderr=PIPE,
\* then return True; the Popen object is dropped and nothing reads the
\* pipes.
Popen(t) ==
    /\ tk_pc[t] = "none"
    /\ \A u \in Tasks : u < t => tk_pc[u] # "none"
    /\ tk_pc' = [tk_pc EXCEPT ![t] = "log"]
    /\ UNCHANGED <<PipeRest, tk_point, tk_pending, pipe>>

\* A logger call of the task: logging.basicConfig sends every record to
\* standard error, which is the pipe; how long the record is depends on
\* the task description, the paths and the error texts.
TaskLog(t) ==
    /\ tk_pc[t] = "log"
    /\ tk_point[t] < LogPoints
    /\ \E n \in 0..MaxWrite : tk_pending' = [tk_pending EXCEPT ![t] = n]
    /\ tk_pc' = [tk_pc EXCEPT ![t] = "write"]
    /\ UNCHANGED <<PipeRest, tk_point, pipe>>

\* The write of the record to the pipe
TaskWrite(t) ==
    /\ tk_pc[t] = "write"
    /\ PipeTakes(pipe[t], tk_pending[t])
    /\ pipe' = [pipe EXCEPT ![t] = @ + tk_pending[t]]
    /\ tk_pending' = [tk_pending EXCEPT ![t] = 0]
    /\ tk_point' = [tk_point EXCEPT ![t] = @ + 1]
    /\ tk_pc' = [tk_pc EXCEPT ![t] = "log"]
    /\ UNCHANGED PipeRest

\* The final report of the run, after its last log record
TaskReport(t) ==
    /\ tk_pc[t] = "log"
    /\ tk_point[t] = LogPoints
    /\ tk_pc' = [tk_pc EXCEPT ![t] = "done"]
    /\ UNCHANGED <<PipeRest, tk_point, tk_pending, pipe>>

PipeNext ==
    \/ \E t \in Tasks : Popen(t)
    \/ \E t \in Tasks : TaskLog(t)
    \/ \E t \in Tasks : TaskWrite(t)
    \/ \E t \in Tasks : TaskReport(t)

\* The operating system runs every process that can run.
PipeSpec ==
    /\ PipeInit
    /\ [][PipeNext]_vars
    /\ \A t \in Tasks :
          WF_vars(TaskLog(t)) /\ WF_vars(TaskWrite(t)) /\ WF_vars(TaskReport(t))

\* ------------------------------------------- GitManager.write_file_content
\* A path string: absolute or not, and its segments.
Path(abs, segs) == [abs |-> abs, segs |-> segs]

\* args.project_path, an absolute path, and the directories above it
RepoPath == <<"srv", "repo">>
Directories == {SubSeq(RepoPath, 1, n) : n \in 0..Len(RepoPath)}

RECURSIVE SegSeqsUpTo(_)
SegSeqsUpTo(n) ==
    IF n = 0 THEN {<<>>}
    ELSE LET shorter == SegSeqsUpTo(n - 1)
         IN shorter \cup {Append(q, g) : q \in shorter, g \in {"..", "pkg", "a.py"}}

\* The paths a heading of a response can name: [^\n]+ after "### File: ".
FilePaths(n) == {Path(abs, segs) : abs \in BOOLEAN, segs \in SegSeqsUpTo(n)}

\* pathlib's `/` keeping the base whatever the right-hand side is.
JoinPath_Under(base, path) == base \o path.segs

\* self.repo_path / file_path: an absolute right-hand side replaces the
\* base, and no ".." is taken out.
JoinPath(base, path) == IF path.abs THEN path.segs ELSE base \o path.segs

\* The file a path names once the operating system has followed it: each
\* ".." goes one directory up, and stays at the root there.
RECURSIVE Resolve(_, _)
Resolve(segs, at) ==
    IF segs = <<>> THEN at
    ELSE Resolve(Tail(segs),
                 IF Head(segs) = ".."
                 THEN (IF at = <<>> THEN at ELSE SubSeq(at, 1, Len(at) - 1))
                 ELSE Append(at, Head(segs)))

WriteCall(path, done, ok, at) ==
    [fn |-> "write", path |-> path, done |-> done, ok |-> ok, at |-> at]

WriteInit ==
    /\ WfIdle
    /\ PipeIdle
    /\ CtxIdle
    /\ WhIdle
    /\ RaceIdle
    /\ ParserIdle
    /\ ExtractIdle
    /\ fn_call \in {WriteCall(path, FALSE, FALSE, <<>>) : path \in FilePaths(MaxDepth)}
    /\ sb_pc = "idle"
    /\ sb_text = <<>>
    /\ sb_event = NoEvent
    /\ sb_config = <<>>
    /\ sb_found = NothingFound
    /\ sb_log = <<>>

\* write_file_content: the parents are made, the text is written, and any
\* exception (the path names a directory, no permission, a full disk)
\* makes it return False with nothing written.
WriteFileContent ==
    /\ fn_call.fn = "write"
    /\ ~fn_call.done
    /\ LET full_path == Resolve(JoinPath(RepoPath, fn_call.path), <<>>)
       IN \E ok \in BOOLEAN :
             /\ ok => full_path \notin Directories
             /\ fn_call' = WriteCall(fn_call.path, TRUE, ok,
                                     IF ok THEN full_path ELSE <<>>)
    /\ UNCHANGED <<SlackRest, sb_pc, sb_text, sb_event, sb_config, sb_found, sb_log>>

WriteNext == WriteFileContent

WriteSpec == WriteInit /\ [][WriteNext]_vars

\* ------------------------------------------- the helpers of slack_bot.py
HelperInit ==
    /\ WfIdle
    /\ PipeIdle
    /\ CtxIdle
    /\ WhIdle
    /\ RaceIdle
    /\ ParserIdle
    /\ ExtractIdle
    /\ fn_call \in {DetermineCall(text, Pending) : text \in Messages}
                  \cup {FindCall(proj, type, NoCall) :
                           proj \in SlackProjects, type \in TypeTokens}
    /\ sb_pc = "idle"
    /\ sb_text = <<>>
    /\ sb_event = NoEvent
    /\ sb_config = <<>>
    /\ sb_found = NothingFound
    /\ sb_log = <<>>

CallDetermineAgentType ==
    /\ fn_call.fn = "determine"
    /\ fn_call.result = Pending
    /\ fn_call' = DetermineCall(fn_call.text, DetermineAgentType(fn_call.text))
    /\ UNCHANGED <<SlackRest, sb_pc, sb_text, sb_event, sb_config, sb_found, sb_log>>

CallFindAgentByType ==
    /\ fn_call.fn = "find"
    /\ fn_call.found = NoCall
    /\ fn_call' = FindCall(fn_call.proj, fn_call.type,
                           FindAgentByType(fn_call.proj, fn_call.type))
    /\ UNCHANGED <<SlackRest, sb_pc, sb_text, sb_event, sb_config, sb_found, sb_log>>

\* ---------------------------------------------- handle_mention, one event
SlackInit ==
    /\ WfIdle
    /\ PipeIdle
    /\ CtxIdle
    /\ WhIdle
    /\ RaceIdle
    /\ ParserIdle
    /\ ExtractIdle
    /\ fn_call = NoCall
    /\ sb_pc = "start"
    /\ sb_text \in SlackTexts
    /\ sb_event \in Events
    /\ sb_config \in SlackConfigs
    /\ sb_found = NothingFound
    /\ sb_log = <<>>

\* ack(), the handler's first statement
MentionAck ==
    /\ sb_pc = "start"
    /\ sb_log' = Append(sb_log, Ack)
    /\ sb_pc' = "resolve"
    /\ UNCHANGED <<SlackRest, fn_call, sb_text, sb_event, sb_config, sb_found>>

\* From the issue reference to the starting message: each missing piece
\* ends the handler with its own reply.
MentionResolve ==
    /\ sb_pc = "resolve"
    /\ LET the_issue == ExtractLinearIssue(sb_text).issue_id
           the_type == DetermineAgentType(sb_text)
           the_project == GetProjectFromIssue(sb_config)
           the_agent == FindAgentByType(the_project, the_type)
           stop(kind, found) ==
               /\ sb_log' = Append(sb_log, Say(kind))
               /\ sb_found' = found
               /\ sb_pc' = "done"
       IN IF the_issue = None
          THEN stop("no_issue", NothingFound)
          ELSE IF the_type = NoType
          THEN stop("no_type", [NothingFound EXCEPT !.issue_id = the_issue])
          ELSE IF the_project = NoSlackProject
          THEN stop("no_project", [NothingFound EXCEPT !.issue_id = the_issue,
                                       !.agent_type = the_type])
          ELSE IF the_agent = NoSlackAgent
          THEN stop("no_agent", [NothingFound EXCEPT !.issue_id = the_issue,
                                     !.agent_type = the_type,
                                     !.project = the_project])
          ELSE /\ sb_log' = Append(sb_log, Say("starting"))
               /\ sb_found' = [issue_id |-> the_issue, agent_type |-> the_type,
                               project |-> the_project, agent |-> the_agent]
               /\ sb_pc' = "dispatch"
    /\ UNCHANGED <<SlackRest, fn_call, sb_text, sb_event, sb_config>>

\* The dispatch and what follows it
MentionDispatch ==
    /\ sb_pc = "dispatch"
    /\ \E outcome \in DispatchOutcomes :
          sb_log' = sb_log \o <<DispatchCall(outcome)>> \o AfterDispatch(outcome)
    /\ sb_pc' = "done"
    /\ UNCHANGED <<SlackRest, fn_call, sb_text, sb_event, sb_config, sb_found>>

SlackNext ==
    \/ MentionAck
    \/ MentionResolve
    \/ MentionDispatch

SlackSpec == SlackInit /\ [][SlackNext]_vars

\* ------------------------------------------------ _slack_progress_callback
\* The context a dispatcher hands back to the callback, and the statuses.
Contexts ==
    [channel : {"None", "", "C1"}, thread_ts : {"None", "", "T1"}]
Statuses == {"started", "success", "failed", "testing", "committing", "other"}
CallbackCall(context, status, posts, outcome) ==
    [fn |-> "callback", context |-> context, status |-> status,
     posts |-> posts, outcome |-> outcome]

\* emoji_map.get(status, default)
EmojiFor(status) ==
    CASE status = "started" -> "arrows"
      [] status = "success" -> "check"
      [] status = "failed" -> "cross"
      [] status = "testing" -> "test_tube"
      [] status = "committing" -> "floppy"
      [] OTHER -> "memo"

CallbackInit ==
    /\ WfIdle
    /\ PipeIdle
    /\ CtxIdle
    /\ WhIdle
    /\ RaceIdle
    /\ ParserIdle
    /\ ExtractIdle
    /\ fn_call \in {CallbackCall(context, status, <<>>, Pending) :
                        context \in Contexts, status \in Statuses}
    /\ sb_pc = "idle"
    /\ sb_text = <<>>
    /\ sb_event = NoEvent
    /\ sb_config = <<>>
    /\ sb_found = NothingFound
    /\ sb_log = <<>>

\* _slack_progress_callback: nothing without a channel and a thread, else
\* one chat_postMessage, whose exception is logged and goes no further.
ProgressCallback ==
    /\ fn_call.fn = "callback"
    /\ fn_call.outcome = Pending
    /\ LET context == fn_call.context
       IN IF context.channel \in {"None", ""} \/ context.thread_ts \in {"None", ""}
          THEN fn_call' = [fn_call EXCEPT !.outcome = "returned"]
          ELSE \E posted \in BOOLEAN :
                  fn_call' = [fn_call EXCEPT
                      !.posts = <<[channel |-> context.channel,
                                   thread_ts |-> context.thread_ts,
                                   emoji |-> EmojiFor(fn_call.status),
                                   posted |-> posted]>>,
                      !.outcome = "returned"]
    /\ UNCHANGED <<SlackRest, sb_pc, sb_text, sb_event, sb_config, sb_found, sb_log>>

\* ------------------------------ reporting: a run, or one progress callback
ReportInit == Init \/ CallbackInit

ReportNext ==
    \/ Next
    \/ ProgressCallback

ReportSpec == ReportInit /\ [][ReportNext]_vars

HelperNext ==
    \/ CallDetermineAgentType
    \/ CallFindAgentByType

HelperSpec == HelperInit /\ [][HelperNext]_vars

\* =================================================================== claims
CallsOf(step) == {i \in 1..Len(calls) : calls[i].step = step}
Called(step) == CallsOf(step) # {}
CalledOk(step) == \E i \in CallsOf(step) : calls[i].ok
Before(s1, s2) == \A i \in CallsOf(s1), j \in CallsOf(s2) : i < j
OpsOf(ops) == {gitops[i].op : i \in {j \in 1..Len(gitops) : gitops[j].op \in ops}}
LastReport == reports[Len(reports)]
FailureKinds == {"workflow_failed", "tests_failed"}

\* C1: every execute_workflow run makes exactly one add_comment call before
\* it returns: never a second one, and never none once it has returned.
C1_ExactlyOneReport ==
    /\ Len(reports) <= 1
    /\ pc = "done" => Len(reports) = 1
    /\ pc \in {"main", "exited"} => reports = <<>>

C1_Witness ==
    /\ pc = "done"
    /\ Len(reports) = 1
    /\ LastReport.kind = "success"
    /\ CalledOk("push")

\* The test subprocess ran and did not exit with code 0.
TestPhaseFailed ==
    /\ test_run.how # "none"
    /\ ~(test_run.how = "exit" /\ test_run.rc = 0)

\* C2: when the configured test command fails (exit code not 0, timeout, or
\* the command does not start), nothing is staged, committed or pushed and
\* the one report is the tests-failed report with the test output, cut to
\* its first 2000 characters.
C2_TestFailureNoCommit ==
    TestPhaseFailed =>
        /\ TestsConfigured(test_command)
        /\ ~Called("commit") /\ ~Called("push")
        /\ OpsOf({"add", "add_all", "commit", "push"}) = {}
        /\ commits = <<>> /\ pushed = {}
        /\ pc = "done"
        /\ Len(reports) = 1
        /\ LastReport.kind = "tests_failed"
        /\ LastReport.out.kind =
               (IF test_run.how = "exit" THEN "combined"
                ELSE IF test_run.how = "timeout" THEN "timed_out" ELSE "start_failed")
        /\ LastReport.out.kind = test_output.kind
        /\ LastReport.out.shown = Min(test_output.len, FailureTruncate)
        /\ LastReport.out.ellipsis = (test_output.len > FailureTruncate)

C2_Witness ==
    /\ pc = "done"
    /\ test_run.how = "exit" /\ test_run.rc = 1
    /\ test_output.len > FailureTruncate
    /\ LastReport.kind = "tests_failed"

\* Every step of the pipeline ran, in order, and succeeded.
AllStepsSucceeded ==
    /\ CalledOk("checkout") /\ active_branch = branch_name
    /\ CalledOk("generate") /\ ~ResponseFalsy(claude_response)
    /\ CalledOk("extract") /\ code_blocks # <<>>
    /\ CalledOk("write") /\ written_files # <<>>
    /\ IF TestsConfigured(test_command)
       THEN CalledOk("test") /\ test_run.how = "exit" /\ test_run.rc = 0
       ELSE ~Called("test")
    /\ CalledOk("commit")
    /\ CalledOk("push") /\ branch_name \in pushed
    /\ gitops[Len(gitops)] = Git("push", branch_name)
    /\ Before("checkout", "generate") /\ Before("generate", "extract")
    /\ Before("extract", "write") /\ Before("write", "test")
    /\ Before("write", "commit") /\ Before("test", "commit")
    /\ Before("commit", "push")

\* C3: a finished run reports success only if checkout succeeded, then
\* generation returned text, then a file was extracted and written, then the
\* tests passed or none were configured, then the commit step and then the
\* push succeeded; every other finished run reports a failure.
C3_SuccessOnlyAfterAllSteps ==
    pc = "done" =>
        /\ Len(reports) >= 1
        /\ LastReport.kind = "success" => AllStepsSucceeded
        /\ ~AllStepsSucceeded => LastReport.kind \in FailureKinds

C3_Witness ==
    /\ pc = "done"
    /\ LastReport.kind = "success"
    /\ AllStepsSucceeded
    /\ TestsConfigured(test_command)

\* The step of the i-th call failed as execute_workflow sees it.
StepFailed(i) ==
    IF calls[i].step = "write"
    THEN \A k \in CallsOf("write") : ~calls[k].ok
    ELSE ~calls[i].ok

\* C4: no pipeline step is invoked twice in a run (the write loop writes
\* each extracted path once), and after a failed step (for the write loop:
\* no write succeeded) no later step is invoked and the run reports failure.
C4_NoRetryNoLaterStep ==
    /\ \A i, j \in 1..Len(calls) :
           i < j => <<calls[i].step, calls[i].arg>> # <<calls[j].step, calls[j].arg>>
    /\ \A i, j \in 1..Len(calls) :
           (i < j /\ StepFailed(i)) => calls[j].step = calls[i].step
    /\ \A i \in 1..Len(calls) :
           StepFailed(i) =>
               /\ pc \in {"done", "except"}
               /\ pc = "done" => (Len(reports) = 1 /\ LastReport.kind \in FailureKinds)

C4_Witness ==
    /\ pc = "done"
    /\ Called("commit") /\ ~CalledOk("commit")
    /\ \E i \in CallsOf("write") : ~calls[i].ok
    /\ LastReport.error = <<"Failed to commit changes">>

\* The git commands a step ran.
NewOps == SubSeq(gitops', Len(gitops) + 1, Len(gitops'))
NewOpNames(ops) == {i \in 1..Len(NewOps) : NewOps[i].op \in ops}

\* C5: checkout_branch for feature/{issueId} fetches first; with the branch
\* present locally it checks it out and pulls and does not create it; else
\* with the branch present on origin it creates it tracking origin's; only
\* with the branch on neither side it creates it from the main branch.
C5_CheckoutPolicy ==
    [][pc = "checkout" =>
        /\ NewOps[1].op = "fetch"
        /\ branch_name \in heads =>
              /\ NewOpNames({"checkout_new", "checkout_track"}) = {}
              /\ \A i \in 2..Len(NewOps) :
                     /\ NewOps[i].arg = branch_name
                     /\ NewOps[i].op = (IF i = 2 THEN "checkout" ELSE "pull")
        /\ (branch_name \notin heads /\ OriginRef(branch_name) \in origin_refs) =>
              /\ NewOpNames({"checkout_new"}) = {}
              /\ \A i \in 2..Len(NewOps) : NewOps[i] \in
                     {Git("checkout_track", branch_name),
                      [Git("checkout_track", branch_name) EXCEPT !.ok = FALSE]}
        /\ (branch_name \notin heads /\ OriginRef(branch_name) \notin origin_refs) =>
              /\ NewOpNames({"checkout_track"}) = {}
              /\ \A i \in NewOpNames({"checkout_new"}) :
                     i = 4 /\ NewOps[i].arg = branch_name
    ]_vars

\* C6: with API keys set and a project path that holds no git repository,
\* the task ends having posted the checkout-failed report.
C6_UnreadableRepoReported ==
    (env_ok /\ ~repo_valid /\ pc \in {"done", "exited"}) =>
        /\ Len(reports) = 1
        /\ LastReport.kind = "workflow_failed"
        /\ LastReport.error = <<"Failed to checkout branch">>

\* C7: an exception that reaches execute_workflow is caught there, is
\* reported as a workflow failure whose text holds the exception's message,
\* and does not leave execute_workflow.
C7_ExceptionCaughtAndReported ==
    exc # "" =>
        /\ pc \in {"except", "done"}
        /\ pc = "done" =>
              /\ Len(reports) = 1
              /\ LastReport.kind = "workflow_failed"
              /\ Len(LastReport.error) = 2
              /\ LastReport.error[1] = "Unexpected error: "
              /\ LastReport.error[2] = exc
        /\ pc = "except" => reports = <<>>

C7_Witness ==
    /\ exc = "TypeError"
    /\ pc = "done"
    /\ LastReport.error = <<"Unexpected error: ", "TypeError">>

\* Extraction ran on the response and found no file block.
ExtractedNothing ==
    /\ Called("extract")
    /\ exc = ""
    /\ ExtractCodeBlocks(claude_response.lines) = <<>>

\* C8: when the response yields no file block, the run ends with the
\* failure report "No code blocks found in Claude response"; no file is
\* written, no test is run, nothing is staged, committed or pushed.
C8_NoBlocksAborts ==
    ExtractedNothing =>
        /\ pc = "done"
        /\ Len(reports) = 1
        /\ LastReport.kind = "workflow_failed"
        /\ LastReport.error = <<"No code blocks found in Claude response">>
        /\ ~Called("write") /\ ~Called("test")
        /\ ~Called("commit") /\ ~Called("push")
        /\ written_files = <<>>
        /\ OpsOf({"add", "add_all", "commit", "push"}) = {}
        /\ commits = <<>> /\ pushed = {}

C8_Witness ==
    /\ ExtractedNothing
    /\ pc = "done"
    /\ claude_response.lines = HeadingOnly("a.py") \o Prose
    /\ LastReport.error = <<"No code blocks found in Claude response">>

\* The paths whose write returned True, and those whose write returned False.
WrittenOk == {calls[i].arg : i \in {j \in CallsOf("write") : calls[j].ok}}
WriteFailed == {calls[i].arg : i \in {j \in CallsOf("write") : ~calls[j].ok}}

\* C9: the commit step stages with `git add <path>` only, never `git add .`;
\* what it stages are paths whose write succeeded in this run, all of them
\* when no add raises; the index entry of every other path is left alone.
C9_StagesExactlyWritten ==
    [][pc = "commit" =>
        LET adds == NewOpNames({"add", "add_all"})
            staged == {NewOps[i].arg[1] : i \in {j \in adds : NewOps[j].ok}}
        IN /\ \A i \in adds : NewOps[i].op = "add"
           /\ staged \subseteq WrittenOk
           /\ staged \cap WriteFailed = {}
           /\ (\A i \in adds : NewOps[i].ok) => staged = WrittenOk
           /\ \A p \in TreePaths \ WrittenOk : index'[p] = index[p]
    ]_vars

C9_Witness ==
    /\ pc = "push"
    /\ WriteFailed # {}
    /\ WrittenOk # {}
    /\ Len(commits) = 1
    /\ worktree["notes.txt"] # head_tree["notes.txt"]

\* C10: when every written file is staged and the index then equals the
\* checked-out commit, stage_and_commit returns True and creates no commit,
\* whatever the other files of the working tree are, and the run goes on to
\* the push.
C10_NothingToCommitIsSuccess ==
    [][(/\ pc = "commit"
        /\ \A i \in NewOpNames({"add"}) : NewOps[i].ok
        /\ {NewOps[i].arg[1] : i \in NewOpNames({"add"})} = Range(written_files)
        /\ index' = head_tree)
       => /\ pc' = "push"
          /\ commits' = commits
          /\ calls'[Len(calls')] = Call("commit", "", TRUE)
    ]_vars

\* C11: the mapping _gather_context returns holds at most 20 files, each of
\* fewer than 10,000 characters.
C11_ContextBounded ==
    ctx_pc = "done" =>
        /\ Cardinality(context_files) <= ContextCap
        /\ \A e \in context_files : e.len < SizeCap

\* C12: with no test command configured the test executor is never invoked,
\* the run goes from the write loop straight to commit and then push, and a
\* success report carries the text "No tests specified" as its test output.
C12_NoTestsPath ==
    test_command = "" =>
        /\ ~Called("test") /\ pc # "test"
        /\ test_run = NotRun /\ test_output = NoOutput
        /\ (Called("write") /\ written_files # <<>>) =>
               pc \in {"commit", "push", "done"}
        /\ \A i \in CallsOf("commit") : calls[i - 1].step = "write"
        /\ \A i \in CallsOf("push") : calls[i - 1].step = "commit"
        /\ (reports # <<>> /\ LastReport.kind = "success") =>
               /\ CalledOk("commit") /\ CalledOk("push")
               /\ LastReport.out =
                      [kind |-> "no_tests", shown |-> NoTestsMsgLen,
                       ellipsis |-> FALSE]

C12_Witness ==
    /\ pc = "done"
    /\ test_command = ""
    /\ LastReport.kind = "success"
    /\ LastReport.out.kind = "no_tests"
    /\ commits # <<>>

\* C13: run_tests returns success exactly when the subprocess exits with
\* code 0; another exit code returns failure with the combined stdout and
\* stderr, a timeout returns failure with the "timed out" text, and no
\* exception leaves run_tests.
C13_RunTestsResult ==
    Called("test") =>
        /\ test_run \in TestRuns
        /\ test_success = (test_run.how = "exit" /\ test_run.rc = 0)
        /\ \A i \in CallsOf("test") : calls[i].ok = test_success
        /\ test_run.how = "exit" =>
               test_output = Output("combined", CombinedOverhead + test_run.n)
        /\ test_run.how = "timeout" =>
               test_output = Output("timed_out", TimeoutMsgLen)
        /\ test_run.how = "oserror" => test_output.kind = "start_failed"
        /\ exc = "" /\ pc \in {"commit", "push", "done"}

C13_Witness ==
    /\ Called("test")
    /\ test_run.how = "timeout"
    /\ ~test_success
    /\ reports # <<>>

\* ---- the webhook handler
StepsOf(name) == {i \in 1..Len(wh_steps) : wh_steps[i].step = name}
StepResult(name) == wh_steps[CHOOSE i \in StepsOf(name) : TRUE].arg
Responded == wh_pc = "responded"

\* C14: a request whose signature validation returned False is answered
\* with 401 and nothing else happens for it: the body is not parsed, no
\* configuration is looked up, no process is started.
C14_InvalidSignatureRejected ==
    (StepsOf("validate_signature") # {} /\ StepResult("validate_signature") = "false") =>
        /\ Responded
        /\ http_response = HttpError(401, "Invalid webhook signature")
        /\ Len(wh_steps) = 1
        /\ comment_data = NoCommentData /\ project = NoProject
        /\ StepsOf("load_config") = {} /\ StepsOf("json_loads") = {}
        /\ spawned = <<>> /\ dispatched_count = 0

C14_Witness ==
    /\ Responded
    /\ webhook_secret = "k1"
    /\ request = Request(Body("json", NominalPayload), Signature(<<Junk>>))
    /\ config_file = "ok"
    /\ http_response.status = 401

\* C15: a server without a webhook secret takes every request as signed,
\* whatever its Linear-Signature header holds.
C15_NoSecretAcceptsAll ==
    (webhook_secret = "" /\ wh_steps # <<>>) =>
        /\ wh_steps[1] = Step("validate_signature", "true")
        /\ http_response.status # 401

C15_Witness ==
    /\ Responded
    /\ webhook_secret = ""
    /\ request.signature = Signature(<<NonAscii>>)
    /\ spawned # <<>>

\* C16: a server with a webhook secret refuses a request without signature,
\* takes a signature that, one leading "sha256=" removed, is the hex
\* HMAC-SHA256 of the body under the secret, and returns False for every
\* other signature.
C16_SignatureCheck ==
    (webhook_secret # "" /\ wh_steps # <<>>) =>
        StepResult("validate_signature") =
            (IF request.signature \in
                    {Signature(<<HexDigest(webhook_secret, request.body)>>),
                     Signature(<<Prefix, HexDigest(webhook_secret, request.body)>>)}
             THEN "true" ELSE "false")

\* The positions of a text where an @word token starts, and the token there.
AtPositions(tx) ==
    {i \in 1..Len(tx) : tx[i] = "@" /\ i < Len(tx) /\ tx[i + 1] \in WordChars}
HandleAt(tx, i) ==
    SubSeq(tx, i, CHOOSE j \in (i + 1)..Len(tx) :
                      /\ \A k \in (i + 1)..j : tx[k] \in WordChars
                      /\ j = Len(tx) \/ tx[j + 1] \notin WordChars)
\* The handler took the request for a comment-creation event with a text.
CommentEventTaken ==
    /\ StepsOf("extract_comment_data") # {}
    /\ StepResult("extract_comment_data") = "data"
    /\ comment_data.comment_body.t = "text"
BodyText == comment_data.comment_body.v

\* C17: a comment-creation event whose body holds no @word token starts no
\* process, and the response says that no agent mentions were found.
C17_NoMentionsNoDispatch ==
    (Responded /\ CommentEventTaken /\ AtPositions(BodyText) = {}) =>
        /\ spawned = <<>>
        /\ http_response =
               WebhookResponse("No agent mentions found in comment", FALSE, 0)

\* The @word tokens of the body that name an agent of the event's project,
\* and the dispatch_agent_task calls made, both in order.
AgentHandles == {project.agents[i].mention : i \in 1..Len(project.agents)}
MatchingPositions ==
    {i \in AtPositions(BodyText) : HandleAt(BodyText, i) \in AgentHandles}
DispatchSteps == StepsOf("dispatch_agent_task")
Started == {i \in DispatchSteps : wh_steps[i].arg = "true"}
RankIn(set, i) == Cardinality({j \in set : j <= i})

\* C18: for one comment event the handler calls dispatch_agent_task once
\* per @word occurrence that names an agent of the project, in text order
\* and once more for each repetition; the processes started are those of
\* the calls whose spawn succeeded, in the same order, and the response has
\* dispatched = true exactly when at least one was started.
C18_OneProcessPerMention ==
    /\ Len(spawned) = Cardinality(Started)
    /\ dispatched_count = Len(spawned)
    /\ \A i \in Started : spawned[RankIn(Started, i)].mention = wh_steps[i].mention
    /\ (Responded /\ CommentEventTaken /\ project # NoProject) =>
          /\ Cardinality(DispatchSteps) = Cardinality(MatchingPositions)
          /\ \A i \in DispatchSteps : \E q \in MatchingPositions :
                 /\ RankIn(MatchingPositions, q) = RankIn(DispatchSteps, i)
                 /\ wh_steps[i].mention = HandleAt(BodyText, q)
          /\ http_response.status = 200
          /\ http_response.dispatched = (Len(spawned) > 0)
          /\ http_response.count = Len(spawned)
    /\ (Responded /\ project = NoProject) => spawned = <<>> /\ ~http_response.dispatched

C18_Witness ==
    /\ Responded
    /\ CommentEventTaken
    /\ BodyText = <<"@", "d", "@", "d">>
    /\ Len(spawned) = 2
    /\ spawned[1].role = "developer" /\ spawned[2].role = "developer"
    /\ http_response.dispatched

\* C19: extract_comment_data returns None, without raising, for a payload
\* that is not a comment creation or that has no comment id or no issue id
\* (a null issue, project or user included), and a record with the comment
\* id and the issue id for every other payload.
C19_ExtractNoneOrRecord ==
    StepsOf("extract_comment_data") # {} =>
        LET payload == request.body.payload
            issue == payload.data.issue
            lacking == \/ payload.type # "Comment" \/ payload.action # "create"
                       \/ payload.data.id = Absent
                       \/ issue \in {Absent, Null}
                       \/ issue \notin {Absent, Null} /\ issue.id = Absent
        IN  IF lacking
            THEN StepResult("extract_comment_data") = "none"
            ELSE /\ StepResult("extract_comment_data") = "data"
                 /\ comment_data.comment_id = payload.data.id
                 /\ comment_data.issue_id = issue.id

\* C20: a configuration that cannot be loaded, a project id the
\* configuration does not hold, and a mention that names no agent of the
\* project each start no process and show in the response of the request:
\* an error status, or a message that names the cause.
C20_ConfigErrorsSurfaced ==
    Responded =>
        /\ (StepsOf("load_config") # {} /\ StepResult("load_config") = "raised") =>
               /\ spawned = <<>>
               /\ http_response.status = 500
               /\ http_response.message \in {"Configuration file not found",
                                             "Invalid configuration file format"}
        /\ (StepsOf("find_project_by_id") # {}
               /\ StepResult("find_project_by_id") = "none") =>
               /\ spawned = <<>>
               /\ http_response.message = "Unknown project ID"
        /\ \A i \in StepsOf("find_agent_by_mention") :
               wh_steps[i].arg = "none" =>
                   /\ \A k \in 1..Len(spawned) : spawned[k].mention # wh_steps[i].mention
                   /\ \/ http_response.status >= 400
                      \/ http_response.message =
                             "No valid agent mentions found for this project"

\* A turn of the handler once it stands in the dispatch loop.
HandlerTurn == DispatchMention \/ FinishDispatch

\* C21: the handler answers without waiting for any dispatched task: in the
\* dispatch loop its next turn (the next mention, or the response) can be
\* taken whatever state the processes started so far are in, every started
\* process has a state of its own that the handler does not hold, and the
\* response counts the processes started, finished or not.
C21_ResponseDoesNotWait ==
    /\ Len(task_state) = Len(spawned)
    /\ wh_pc = "dispatch" => ENABLED HandlerTurn
    /\ (Responded /\ Len(task_state) > 0) =>
           /\ http_response.status = 200
           /\ http_response.dispatched
           /\ http_response.count = Len(task_state)

\* The response to a comment naming two agents is out while both processes
\* are still running.
C21_Witness ==
    /\ Responded
    /\ Len(task_state) = 2
    /\ \A t \in 1..2 : task_state[t] = "running"

\* The steps of a run taken while another run's feature branch was the one
\* checked out in the working tree they share.
OnForeignBranch ==
    {i \in 1..Len(race_log) :
        \E u \in Tasks \ {race_log[i].task} : race_log[i].branch = TaskBranch(u)}

\* C22: the orchestrator takes no lock on the repository: a run that has not
\* ended can take its next step wherever the other run stands, and each
\* write, test and commit acts on the branch checked out at that moment,
\* which is the run's own branch as long as the other run has not started
\* its checkout.
C22_NoRepositoryLock ==
    /\ \A t \in Tasks : race_pc[t] # "done" => ENABLED RaceTask(t)
    /\ \A t \in Tasks :
           (\A u \in Tasks \ {t} : race_pc[u] = "checkout") =>
               \A i \in 1..Len(race_log) : race_log[i].branch = TaskBranch(t)

\* Run 1 wrote, tested and committed while feature/I2 was checked out.
C22_Witness ==
    /\ {race_log[i].step : i \in OnForeignBranch \cap
            {j \in 1..Len(race_log) : race_log[j].task = 1}}
           = {"write", "test", "commit"}
    /\ active_branch = TaskBranch(2)

\* ---- extract_linear_issue
ParserCalled == ip_result # NotCalled

\* The text holds a well-formed link whose host is linear.app itself.
IsTrackerLink ==
    /\ ip_parts.host = LinearApp
    /\ ip_parts.prefix = <<>>
    /\ ip_parts.team # <<>>
    /\ ip_parts.path = IssueSeg
    /\ ip_parts.id # <<>>
    /\ ip_parts.pad = 0

\* The text holds a bare identifier, before or after the rest.
BareBefore == ip_parts.lead \in {IdA \o <<" ">>, IdB \o <<" ">>}
BareAfter == ip_parts.trail \in {<<" ">> \o IdA, <<" ">> \o IdB}

\* The link of the text, written with https://
LinkUrl ==
    Https \o LinearApp \o ip_parts.team \o ip_parts.path \o ip_parts.id

\* C23: for a text that holds both a full link of linear.app and a bare
\* identifier, in either order and for the same or another issue,
\* extract_linear_issue returns the link's identifier and its URL.
C23_FullLinkPreferred ==
    (ParserCalled /\ IsTrackerLink /\ (BareBefore \/ BareAfter)) =>
        /\ ip_result.issue_id = ip_parts.id
        /\ ip_result.url = LinkUrl

\* A bare A-1 comes first, the link of B-2 after it, and B-2 is returned.
C23_Witness ==
    /\ ParserCalled
    /\ IsTrackerLink
    /\ ip_parts.lead = IdA \o <<" ">>
    /\ ip_parts.id = IdB
    /\ ip_result.issue_id = IdB

\* C24: for a text that holds a well-formed link of linear.app, written with
\* https:// or with no scheme, extract_linear_issue returns the link's
\* identifier and a URL that is https:// followed by the link as written
\* from the host on.
C24_LinkReturnedWithHttps ==
    (ParserCalled /\ IsTrackerLink /\ ip_parts.scheme \in {<<>>, Https}) =>
        /\ ip_result.issue_id = ip_parts.id
        /\ SubSeq(ip_result.url, 1, Len(Https)) = Https
        /\ SubSeq(ip_result.url, Len(Https) + 1, Len(ip_result.url))
               = LinearApp \o ip_parts.team \o ip_parts.path \o ip_parts.id

\* The link is written without a scheme and comes back with https://
C24_Witness ==
    /\ ParserCalled
    /\ IsTrackerLink
    /\ ip_parts.scheme = <<>>
    /\ ip_result.url = LinkUrl

\* C25: extract_linear_issue returns a URL only for a link whose host is
\* linear.app itself, never for a host that ends with that name after a
\* hyphen or a dot.
C25_OnlyLiteralHost ==
    (ParserCalled /\ ip_result.url # None) => IsTrackerLink

\* C26: an identifier that occurs only as a path segment of a URL of another
\* host, however long that URL is, is not returned.
C26_PathSegmentSkipped ==
    (/\ ParserCalled
     /\ ip_parts.scheme \in {Http, Https}
     /\ ip_parts.prefix = <<>>
     /\ ip_parts.host # <<>> /\ ip_parts.host # LinearApp
     /\ ip_parts.path # <<>>
     /\ ip_parts.id # <<>>
     /\ ~BareBefore /\ ~BareAfter)
    => ip_result = NotFound

\* The text holds a URL of another host with an identifier in its path.
OtherHostUrl ==
    /\ ip_parts.scheme \in {Http, Https}
    /\ ip_parts.prefix = <<>>
    /\ ip_parts.host # <<>> /\ ip_parts.host # LinearApp
    /\ ip_parts.path # <<>>
    /\ ip_parts.id # <<>>

\* The first bare identifier of the text: the one before the URL, else the
\* one after it.
FirstBare ==
    IF BareBefore THEN SubSeq(ip_parts.lead, 1, Len(IdA))
    ELSE SubSeq(ip_parts.trail, 2, Len(ip_parts.trail))

\* C35: when the text has no full tracker link, extract_linear_issue
\* returns, with no URL, the first bare identifier that is not itself part
\* of a URL; an identifier standing alone is not skipped because a URL
\* nearby holds the same identifier.
C35_StandaloneNotSkipped ==
    (ParserCalled /\ OtherHostUrl /\ (BareBefore \/ BareAfter)) =>
        ip_result = [issue_id |-> FirstBare, url |-> None]

\* The same for a short URL that holds another identifier.
C35_OtherIdentifier ==
    (/\ ParserCalled
     /\ OtherHostUrl
     /\ ip_parts.pad = 0
     /\ (BareBefore \/ BareAfter)
     /\ FirstBare # ip_parts.id)
    => ip_result = [issue_id |-> FirstBare, url |-> None]

\* ---- extract_code_blocks
\* The file blocks of the response, in order, and the body of each with
\* the white space around it taken off.
FileSegs == SelectIn(xb_segs, {g \in Segs : g.kind \in FileSegKinds})
BodyOf(seg) == IF seg.kind = "empty" THEN <<>> ELSE <<"code">>

\* C27: on a response with two "### File:" headings of different paths, each
\* followed at once by a fenced block, extract_code_blocks returns those two
\* paths as its only keys, in the order they appear, each with its fenced
\* body stripped; the prose around them adds no key.
C27_TwoBlocksTwoKeys ==
    (/\ xb_blocks # NotExtracted
     /\ Len(FileSegs) = 2
     /\ FileSegs[1].path # FileSegs[2].path)
    => xb_blocks = [i \in 1..2 |-> [path |-> FileSegs[i].path,
                                    content |-> BodyOf(FileSegs[i])]]

\* ---- slack_bot.py
\* The word sets of the three agent types as the specification lists them.
SpecDeveloperWords == DeveloperWords
SpecTesterWords == TesterWords
SpecArchitectWords ==
    ArchitectWords \cup {<<"r", "e", "v", "i", "e", "w">>,
                         <<"r", "e", "v", "i", "e", "w", "e", "r">>}

\* C28: _determine_agent_type, whatever the case of the text, returns
\* developer when the text contains developer, dev, implement or code; else
\* tester when it contains tester, test or qa; else architect when it
\* contains architect, architecture, design, review or reviewer; else None.
C28_AgentTypeInference ==
    (fn_call.fn = "determine" /\ fn_call.result # Pending) =>
        LET has(words) == \E w \in words : Contains(Lower(fn_call.text), w)
        IN fn_call.result =
              IF has(SpecDeveloperWords) THEN "developer"
              ELSE IF has(SpecTesterWords) THEN "tester"
              ELSE IF has(SpecArchitectWords) THEN "architect"
              ELSE NoType

\* C29: _find_agent_by_type maps developer, tester, architect and reviewer
\* to @developer, @tester, @architect and @architect and returns the first
\* agent of the project with that handle; None for another type and when
\* the project has no agent with the handle.
C29_FindAgentByType ==
    (fn_call.fn = "find" /\ fn_call.found # NoCall) =>
        LET handle == CASE fn_call.type = "developer" -> "@developer"
                        [] fn_call.type = "tester" -> "@tester"
                        [] fn_call.type \in {"architect", "reviewer"} -> "@architect"
                        [] OTHER -> "None"
            ags == fn_call.proj.agents
            hits == {i \in 1..Len(ags) : ags[i].mention = handle}
        IN IF hits = {} THEN fn_call.found = NoSlackAgent
           ELSE /\ fn_call.found = ags[CHOOSE i \in hits : \A j \in hits : i <= j]

Dispatches == {i \in 1..Len(sb_log) : sb_log[i].op = "dispatch"}

MissingCause ==
    LET the_type == DetermineAgentType(sb_text)
        the_project == GetProjectFromIssue(sb_config)
    IN IF ExtractLinearIssue(sb_text).issue_id = None THEN "no_issue"
       ELSE IF the_type = NoType THEN "no_type"
       ELSE IF the_project = NoSlackProject THEN "no_project"
       ELSE IF FindAgentByType(the_project, the_type) = NoSlackAgent
       THEN "no_agent"
       ELSE "none"

EventThread ==
    IF sb_event.thread_ts \in {"None", ""} THEN sb_event.ts
    ELSE sb_event.thread_ts

\* C31: handle_mention acknowledges every event exactly once, and when the
\* issue reference, the agent type, the project configuration or the agent
\* of that type is missing (looked for in this order) it posts exactly one
\* reply, in the event's thread and naming that cause, and dispatches
\* nothing.
C31_OneReplyPerCause ==
    /\ Cardinality({i \in 1..Len(sb_log) : sb_log[i].op = "ack"})
          = IF sb_pc \in {"idle", "start"} THEN 0 ELSE 1
    /\ (sb_pc = "done" /\ MissingCause # "none") =>
          sb_log = <<Ack, [op |-> "say", arg |-> MissingCause,
                           thread |-> EventThread]>>

C31_Witness ==
    /\ sb_pc = "done"
    /\ sb_event.thread_ts = "T1"
    /\ MissingCause = "no_agent"
    /\ Len(sb_log) = 2
    /\ sb_log[2].thread = "T1"

\* ---- reporting
\* C32: reporting is best-effort.  A report post that the destination does
\* not take (add_comment failing, the chat post of the progress callback
\* raising) lets no exception out, leaves the run where a posted report
\* leaves it, and is followed by no second report.
C32_ReportingBestEffort ==
    /\ Len(reports) <= 1
    /\ \A i \in 1..Len(reports) :
          ~reports[i].posted => pc = "done" /\ ~ENABLED Next
    /\ (fn_call.fn = "callback" /\ fn_call.outcome # Pending) =>
          /\ fn_call.outcome = "returned"
          /\ Len(fn_call.posts) <= 1

C32_Witness ==
    /\ pc = "done"
    /\ Len(reports) = 1
    /\ reports[1].kind = "success"
    /\ ~reports[1].posted

C32_CallbackWitness ==
    /\ fn_call.fn = "callback"
    /\ fn_call.outcome = "returned"
    /\ Len(fn_call.posts) = 1
    /\ ~fn_call.posts[1].posted

\* ---- a second run
\* The git commands of the run under way.
RunOps == SubSeq(gitops, rerun.ops + 1, Len(gitops))

\* C33: a run for an issue that starts after an earlier run for it has
\* ended with a report and created the feature branch in the local
\* repository, and whose fetch and pull succeed, gets past branch
\* acquisition: it does not end with the checkout-failure report.
C33_SecondRunAcquiresBranch ==
    (/\ rerun.n = 2
     /\ rerun.created
     /\ rerun.reports = 1
     /\ pc = "done"
     /\ \A i \in 1..Len(RunOps) :
           RunOps[i].op \in {"fetch", "pull"} => RunOps[i].ok)
    => /\ Len(reports) = 2
       /\ reports[2].error # <<"Failed to checkout branch">>

\* ---- what a failure report says
\* What made the run fail: the exception that reached the except clause,
\* or the step that was the last to be tried.
FailedStep == IF exc # "" THEN "exception" ELSE calls[Len(calls)].step

\* The step a report names, read from its text alone.
StepNamedBy(report) ==
    CASE report.kind = "tests_failed" -> "test"
      [] report.kind = "success" -> "none"
      [] report.error = <<"Failed to checkout branch">> -> "checkout"
      [] report.error = <<"Failed to generate code with Claude AI">> -> "generate"
      [] report.error = <<"No code blocks found in Claude response">> -> "extract"
      [] report.error = <<"Failed to write any files">> -> "write"
      [] report.error = <<"Failed to commit changes">> -> "commit"
      [] report.error = <<"Failed to push changes to remote">> -> "push"
      [] report.error[1] = "Unexpected error: " -> "exception"
      [] OTHER -> "unknown"

\* C34: the failure report identifies the failed step.  Checkout,
\* generation, extraction, file writing, commit, push and an unexpected
\* exception each have their own message, a test failure has the separate
\* tests-failed report, and the text of a report fixes its cause.
C34_ReportNamesFailedStep ==
    (pc = "done" /\ reports # <<>> /\ reports[1].kind # "success") =>
        StepNamedBy(reports[1]) = FailedStep

C34_Witness ==
    /\ pc = "done"
    /\ Len(reports) = 1
    /\ reports[1].error = <<"Failed to push changes to remote">>
    /\ \E i \in 1..Len(calls) : calls[i].step = "write" /\ ~calls[i].ok

\* ---- extract_code_blocks, indented responses
IndentedSegs == SelectIn(xb_segs, {g \in Segs : g.kind = "indented"})

\* C36: extract_code_blocks extracts the file blocks of a response whose
\* heading and fence lines start with the same run of spaces: one key for
\* each such block.
C36_IndentedBlocksExtracted ==
    (/\ xb_blocks # NotExtracted
     /\ \A i \in 1..Len(xb_segs) : xb_segs[i].kind \in {"indented", "prose"})
    => Range(DictKeys(xb_blocks)) = {g.path : g \in Range(IndentedSegs)}

\* ---- spawned tasks
\* C37: once dispatch_agent_task has spawned a task, the task runs to its
\* final report with nothing more done by the dispatching process: the
\* dispatcher neither waits for it nor has to read what it writes.
C37_TaskNeedsNoReader ==
    \A t \in Tasks : (tk_pc[t] # "none") ~> (tk_pc[t] = "done")

\* ---- where files are written
Written == fn_call.fn = "write" /\ fn_call.done /\ fn_call.ok

\* C38: every file written lies inside the repository working tree, for
\* every path a response can name, absolute paths and paths with ".."
\* segments included.
C38_WritesStayInRepository ==
    Written =>
        /\ Len(fn_call.at) > Len(RepoPath)
        /\ SubSeq(fn_call.at, 1, Len(RepoPath)) = RepoPath

\* The same for the relative paths that hold no "..".
C38_PlainRelativePaths ==
    (/\ Written
     /\ ~fn_call.path.abs
     /\ \A i \in 1..Len(fn_call.path.segs) : fn_call.path.segs[i] # "..")
    => /\ Len(fn_call.at) > Len(RepoPath)
       /\ SubSeq(fn_call.at, 1, Len(RepoPath)) = RepoPath

\* ---- what a failed run leaves behind
\* The content the run wrote to a path.
WrittenContent(p) ==
    code_blocks[CHOOSE i \in 1..Len(code_blocks) : code_blocks[i].path = p].content

FailedAfterWriting ==
    /\ pc = "done"
    /\ written_files # <<>>
    /\ reports # <<>>
    /\ reports[1].kind # "success"

\* C39: a run that ends in a failure report after files were written (the
\* tests, the commit or the push failed) leaves the written files in the
\* working tree and the feature branch checked out: nothing is reverted,
\* no branch is deleted, the branch checked out before is not restored.
C39_FailureLeavesWork ==
    FailedAfterWriting =>
        /\ \A p \in Range(written_files) : worktree[p] = WrittenContent(p)
        /\ active_branch = branch_name
        /\ branch_name \in heads

C39_Witness ==
    /\ FailedAfterWriting
    /\ reports[1].error = <<"Failed to push changes to remote">>
    /\ "a.py" \in Range(written_files)
    /\ worktree["a.py"] = WrittenContent("a.py")
    /\ active_branch = branch_name

\* ---- one branch name for the whole run
\* C40: in a run with no other task on the repository, every git operation
\* of the run that names or uses a feature branch uses feature/{issue}, the
\* name fixed at construction: a commit is created while that branch is
\* checked out, and the push names that branch.
C40_OneBranchName ==
    /\ \A i \in 1..Len(commits) : commits[i].branch = branch_name
    /\ \A i \in 1..Len(gitops) :
          /\ gitops[i].op \in {"push", "checkout_new", "checkout_track"}
                => gitops[i].arg = branch_name
          /\ gitops[i].op \in {"checkout", "pull"}
                => gitops[i].arg \in {branch_name, <<"main">>, <<"master">>}
    /\ pc \in {"context", "generate", "extract", "write", "test", "commit",
               "push", "except"} => active_branch = branch_name

C40_Witness ==
    /\ pc = "done"
    /\ Len(commits) = 1
    /\ commits[1].branch = branch_name
    /\ gitops[Len(gitops)] = Git("push", branch_name)
    /\ pushed = {branch_name}

====
